---------------------------- MODULE Spec2Model ----------------------------
(***************************************************************************)
(* Replay-and-normalize engine of scripts/update_fa.py: quantity           *)
(* reconstruction, weighted-average cost replay, forward-fill alignment,   *)
(* FX conversion and account valuation.                                    *)
(*                                                                         *)
(* Dates are day numbers.  Day 0 lies in the month before START_MONTH;     *)
(* month m >= 1 covers the days (m-1)*MonthLen+1 .. m*MonthLen and ends on *)
(* day m*MonthLen.  Floating-point amounts are modelled by exact integers  *)
(* and, where the code divides, by exact rationals <<num, den>>.           *)
(* A missing value (NaN / None) is the empty tuple, a present value v is   *)
(* the one-element tuple <<v>>.                                            *)
(***************************************************************************)
EXTENDS Integers, Sequences, FiniteSets, TLC

VARIABLES
    \* align_series applied to one series and one target calendar
    series, target_index, aligned,
    \* compute_positions: the replay loop of one (account, symbol) group
    account, fx_series, total_qty, total_cost, prev_qty, prev_cost,
    row, fx_obs, divisor, positions, pc,
    \* build_quantity_series over a ledger and over a same-day permutation
    records, permuted, qty_map, qty_map_perm, phase,
    \* main / build_account_valuation_df: the month loop
    price_src, month_idx, reports, run,
    \* compute_account_values applied to one quantity map and one price table
    account_values,
    \* build_gongje_account_series applied to one ledger and one calendar
    sema_series,
    \* build_account_assets: the valuation table it is given and its summary
    account_df, summary_df,
    \* load_dividend_pivot: the as-of date and the pivot
    end_date, pivot,
    \* generate_month_reports: the artifacts of each month; the number of
    \* requests sent to the quote source
    outputs, fetch_calls,
    \* main: the configuration files found, the build metadata and the
    \* 'latest' artifacts it writes
    config, build_info, latest_outputs,
    \* build_evaluation_index applied to one start and one end date
    calendar,
    \* read_trading_records: the rows of the ledger file as text
    raw,
    \* build_holdings_df: the holdings snapshot of one as-of date
    holdings_df,
    \* _save_canvas: the files on disk and the position in the function
    files, canvas

alignVars == <<series, target_index, aligned>>
posVars   == <<account, fx_series, total_qty, total_cost, prev_qty, prev_cost,
               row, fx_obs, divisor, positions, pc>>
qtyVars   == <<records, permuted, qty_map, qty_map_perm, phase>>
valVars   == <<price_src, month_idx, reports, run, account_values>>
aggVars   == <<sema_series, account_df, summary_df, end_date, pivot>>
outVars   == <<outputs, fetch_calls>>
runVars   == <<config, build_info, latest_outputs>>
extVars   == <<calendar, raw, holdings_df, files, canvas>>
vars      == <<alignVars, posVars, qtyVars, valVars, aggVars, outVars, runVars,
               extVars>>

---------------------------------------------------------------------------
(* Bounds of the model. *)
MaxDate  == 3
MaxVal   == 2
MonthLen == 2

Dates == 0..MaxDate

---------------------------------------------------------------------------
(* Missing values and small arithmetic helpers. *)
NaN      == <<>>
Num(v)   == <<v>>
isna(x)  == x = <<>>
notna(x) == x # <<>>
fillna0(x) == IF isna(x) THEN 0 ELSE x[1]

Max(S) == CHOOSE x \in S : \A y \in S : y <= x
Min(S) == CHOOSE x \in S : \A y \in S : x <= y
Abs(x) == IF x < 0 THEN -x ELSE x
Range(s) == {s[i] : i \in DOMAIN s}

\* index.union(other): the sorted union of two date indexes
IndexUnion(a, b) == a \cup b

\* Series.reindex(index): the values on the new index, NaN where absent
Reindex(s, index) == [d \in index |-> IF d \in DOMAIN s THEN s[d] ELSE NaN]

\* Series.sort_index().ffill(): each position keeps its own value when present
\* and otherwise takes the filled value of the position before it
RECURSIVE FFillAt(_, _)
FFillAt(s, d) ==
    IF notna(s[d]) THEN s[d]
    ELSE LET before == {x \in DOMAIN s : x < d}
         IN  IF before = {} THEN NaN ELSE FFillAt(s, Max(before))

FFill(s) == [d \in DOMAIN s |-> FFillAt(s, d)]

\* Series.fillna(0.0)
FillNa0(s) == [d \in DOMAIN s |-> fillna0(s[d])]

\* a series without missing values, as a series of present values
Obs(s) == [d \in DOMAIN s |-> Num(s[d])]

\* The bug variant of align_series: gaps are filled backward (bfill)
RECURSIVE BFillAt(_, _)
BFillAt(s, d) ==
    IF notna(s[d]) THEN s[d]
    ELSE LET after == {x \in DOMAIN s : x > d}
         IN  IF after = {} THEN NaN ELSE BFillAt(s, Min(after))

align_series_bfill(s, index) ==
    LET combined == Reindex(s, IndexUnion(DOMAIN s, index))
    IN  FillNa0(Reindex([d \in DOMAIN combined |-> BFillAt(combined, d)], index))

\* align_series (update_fa.py 379-383)
align_series(s, index) ==
    LET combined_index == IndexUnion(DOMAIN s, index)
    IN  FillNa0(Reindex(FFill(Reindex(s, combined_index)), index))

---------------------------------------------------------------------------
(* Specification SpecAlign: align_series on bounded series and calendars. *)

Observations == {NaN} \cup {Num(v) : v \in 0..MaxVal}
SeriesSet == UNION {[D -> Observations] : D \in SUBSET Dates}

IdlePos == /\ account = "kor1" /\ fx_series = <<>> /\ total_qty = 0
           /\ total_cost = <<0, 1>> /\ prev_qty = 0 /\ prev_cost = <<0, 1>>
           /\ row = NaN /\ fx_obs = NaN /\ divisor = NaN
           /\ positions = <<>> /\ pc = "idle"
IdleQty == /\ records = <<>> /\ permuted = <<>> /\ qty_map = NaN
           /\ qty_map_perm = NaN /\ phase = "idle"
IdleVal == /\ price_src = <<>> /\ month_idx = 0 /\ reports = <<>> /\ run = "idle"
           /\ account_values = NaN
IdleAlign == /\ series = <<>> /\ target_index = {} /\ aligned = NaN
IdleAgg == /\ sema_series = NaN /\ account_df = NaN /\ summary_df = NaN
           /\ end_date = NaN /\ pivot = NaN
IdleOut == /\ outputs = <<>> /\ fetch_calls = 0
IdleRun == /\ config = NaN /\ build_info = NaN /\ latest_outputs = NaN
IdleExt == /\ calendar = NaN /\ raw = NaN /\ holdings_df = NaN
           /\ files = NaN /\ canvas = NaN

InitAlign ==
    /\ series \in SeriesSet
    /\ target_index \in SUBSET Dates
    /\ aligned = NaN
    /\ IdlePos /\ IdleQty /\ IdleVal /\ IdleAgg /\ IdleOut /\ IdleRun /\ IdleExt

AlignSeries ==
    /\ aligned = NaN
    /\ aligned' = Num(align_series(series, target_index))
    /\ UNCHANGED <<series, target_index, posVars, qtyVars, valVars, aggVars, outVars, runVars, extVars>>

NextAlign == AlignSeries
SpecAlign == InitAlign /\ [][NextAlign]_vars

\* The most recent observation of s dated <= d, 0 when there is none
LastObs(s, d) ==
    LET obs == {x \in DOMAIN s : x <= d /\ notna(s[x])}
    IN  IF obs = {} THEN 0 ELSE s[Max(obs)][1]

\* C8: align_series returns at each target date d the most recent observation
\* dated <= d and 0 when no observation is dated <= d (forward fill only).
C8_ForwardFillOnly ==
    notna(aligned) =>
        /\ DOMAIN aligned[1] = target_index
        /\ \A d \in target_index : aligned[1][d] = LastObs(series, d)

\* A gap between two different observations and a target date before the first one
C8_Witness ==
    /\ notna(aligned)
    /\ \E d1, d2, d3 \in DOMAIN series :
          /\ d1 < d2 /\ d2 < d3
          /\ notna(series[d1]) /\ isna(series[d2]) /\ notna(series[d3])
          /\ series[d1] # series[d3] /\ series[d1][1] > 0
          /\ d2 \in target_index
          /\ \E d0 \in target_index : d0 < d1 /\ d0 \notin DOMAIN series

---------------------------------------------------------------------------
(* Exact rationals <<num, den>>, den > 0, in lowest terms. *)
RECURSIVE GCD(_, _)
GCD(a, b) == IF b = 0 THEN a ELSE GCD(b, a % b)

RNorm(n, d) ==
    LET g == GCD(Abs(n), Abs(d))
        s == IF d < 0 THEN -1 ELSE 1
    IN  IF n = 0 THEN <<0, 1>> ELSE <<(s * n) \div g, (s * d) \div g>>

R(n)       == <<n, 1>>
RAdd(x, y) == RNorm(x[1] * y[2] + y[1] * x[2], x[2] * y[2])
RSub(x, y) == RNorm(x[1] * y[2] - y[1] * x[2], x[2] * y[2])
RMul(x, y) == RNorm(x[1] * y[1], x[2] * y[2])
RDiv(x, y) == RNorm(x[1] * y[2], x[2] * y[1])
RGeq0(x)   == x[1] >= 0

---------------------------------------------------------------------------
(* Registry and currency rules. *)

\* USD_ACCOUNTS (update_fa.py 62)
USD_ACCOUNTS == {"usa"}

\* load_symbol_map (update_fa.py 172-196) applied to a registry with the items
\* [SPDR, SPYM, SPYM] and [REIT, RT, KRX:R]: name and abbreviation both map to
\* the item's AssetConfig, a KRX: ticker becomes <code>.KS
symbol_map ==
    [k \in {"SPDR", "SPYM", "REIT", "RT"} |->
        IF k \in {"SPDR", "SPYM"}
        THEN [name |-> "SPDR", abbrev |-> "SPYM", ticker |-> "SPYM"]
        ELSE [name |-> "REIT", abbrev |-> "RT", ticker |-> "R.KS"]]

\* is_krw_ticker (update_fa.py 323-325): the tickers ending in .KS or .KQ
is_krw_ticker(ticker) == ticker \in {"R.KS"}

\* fx_rate_on (update_fa.py 233-239), the date of the observation it reads:
\* the last one dated <= date, and the first of the series when there is none
fx_rate_pos(date, fx) ==
    LET available == {x \in DOMAIN fx : x <= date}
    IN  IF available = {} THEN Min(DOMAIN fx) ELSE Max(available)

fx_rate_on(date, fx) == fx[fx_rate_pos(date, fx)]

\* convert_to_krw (update_fa.py 242-258); amount and date are optional values.
\* The result is [value, obs]: the converted amount and the date of the FX
\* observation that was read (NaN when no rate was read)
convert_to_krw(acct, amount, date, fx, use_latest) ==
    IF isna(amount) THEN [value |-> 0, obs |-> NaN]
    ELSE IF acct \in USD_ACCOUNTS
         THEN LET pos == IF use_latest \/ isna(date)
                         THEN Max(DOMAIN fx)
                         ELSE fx_rate_pos(date[1], fx)
              IN  [value |-> amount[1] * fx[pos], obs |-> Num(pos)]
         ELSE [value |-> amount[1], obs |-> NaN]

---------------------------------------------------------------------------
(* compute_positions (update_fa.py 654-696). *)

\* Bug variant: a sell takes the sale proceeds out of the cost basis
replay_trade_proceeds(q, c, qty, krw_flow) ==
    LET new_qty  == q + qty
        new_cost == IF qty > 0 THEN RAdd(c, R(krw_flow))
                    ELSE IF q > 0 THEN RSub(c, R(Abs(krw_flow))) ELSE c
    IN  IF new_qty <= 0
        THEN [total_qty |-> 0, total_cost |-> R(0), prev_qty |-> q, divisor |-> NaN]
        ELSE [total_qty |-> new_qty, total_cost |-> new_cost, prev_qty |-> q,
              divisor |-> NaN]

\* Bug variant: the close (lines 680-682) is left out
replay_trade_noclose(q, c, qty, krw_flow) ==
    [total_qty |-> q + qty,
     total_cost |-> IF qty > 0 THEN RAdd(c, R(krw_flow))
                    ELSE IF q > 0 THEN RSub(c, RMul(RDiv(c, R(q)), R(Abs(qty))))
                    ELSE c,
     prev_qty |-> q,
     divisor |-> IF qty <= 0 /\ q > 0 THEN Num(q) ELSE NaN]

\* Bug variant: the close resets the quantity but keeps the cost basis
replay_trade_keepcost(q, c, qty, krw_flow) ==
    LET new_qty  == q + qty
        new_cost == IF qty > 0 THEN RAdd(c, R(krw_flow))
                    ELSE IF q > 0 THEN RSub(c, RMul(RDiv(c, R(q)), R(Abs(qty))))
                    ELSE c
    IN  [total_qty |-> IF new_qty <= 0 THEN 0 ELSE new_qty,
         total_cost |-> new_cost, prev_qty |-> q,
         divisor |-> IF qty <= 0 /\ q > 0 THEN Num(q) ELSE NaN]

\* Lines 671-682 of the replay loop: q, c are total_qty and total_cost before
\* the row.  divisor is the value total_cost was divided by, NaN when the row
\* divided nothing
replay_trade(q, c, qty, krw_flow) ==
    LET prev     == q
        new_qty  == q + qty
        new_cost == IF qty > 0 THEN RAdd(c, R(krw_flow))
                    ELSE IF prev > 0
                         THEN RSub(c, RMul(RDiv(c, R(prev)), R(Abs(qty))))
                         ELSE c
        div      == IF qty <= 0 /\ prev > 0 THEN Num(prev) ELSE NaN
    IN  IF new_qty <= 0
        THEN [total_qty |-> 0, total_cost |-> R(0), prev_qty |-> prev, divisor |-> div]
        ELSE [total_qty |-> new_qty, total_cost |-> new_cost, prev_qty |-> prev,
              divisor |-> div]

---------------------------------------------------------------------------
(* Specification SpecPositions: the replay loop of one (account, symbol)   *)
(* group, one action per row of the date-sorted group.                     *)

MaxTrades    == 3
MaxTradeDate == 2

\* the quantities and prices of the worked example (buy 10 at 100, sell 4 at
\* 150) with their opposites, and a free (price 0) transfer
TradeQtys   == {-10, -4, 4, 10}
TradePrices == {0, 100, 150}
TradeDates  == 0..MaxTradeDate
\* day 0 may carry no FX observation: a trade can precede the whole FX series
FxRates     == {1, 2}
FxSeriesSet == UNION {[D -> FxRates] : D \in (SUBSET (1..MaxTradeDate)) \ {{}}}
Groups      == {<<"usa", "SPYM">>, <<"kor1", "RT">>, <<"kor1", "ETC">>}

InitPositions ==
    /\ \E g \in Groups :
          /\ account = g[1]
          /\ row = [symbol |-> g[2], date |-> 0, qty |-> 0, price |-> 0, n |-> 0]
    /\ fx_series \in FxSeriesSet
    /\ total_qty = 0 /\ total_cost = R(0)
    /\ prev_qty = 0 /\ prev_cost = R(0)
    /\ fx_obs = NaN /\ divisor = NaN
    /\ positions = <<>>
    /\ pc = "replay"
    /\ IdleAlign /\ IdleQty /\ IdleVal /\ IdleAgg /\ IdleOut /\ IdleRun /\ IdleExt

\* line 658-660: a symbol the registry does not know is skipped
SkipUnknownSymbol ==
    /\ pc = "replay"
    /\ row.symbol \notin DOMAIN symbol_map
    /\ pc' = "done"
    /\ UNCHANGED <<account, fx_series, total_qty, total_cost, prev_qty,
                   prev_cost, row, fx_obs, divisor, positions>>
    /\ UNCHANGED <<aggVars, outVars, runVars, extVars, alignVars, qtyVars, valVars>>

\* lines 664-682: one row of the group, in date order
ReplayTrade ==
    /\ pc = "replay"
    /\ row.symbol \in DOMAIN symbol_map
    /\ row.n < MaxTrades
    /\ \E qty \in TradeQtys, price \in TradePrices, date \in TradeDates :
          /\ date >= row.date
          /\ LET native_amount == price * qty
                 krw_flow == convert_to_krw(account, Num(native_amount), Num(date),
                                            fx_series, FALSE)
                 st == replay_trade(total_qty, total_cost, qty, krw_flow.value)
             IN  /\ total_qty' = st.total_qty
                 /\ total_cost' = st.total_cost
                 /\ prev_qty' = st.prev_qty
                 /\ divisor' = st.divisor
                 /\ fx_obs' = krw_flow.obs
          /\ prev_cost' = total_cost
          /\ row' = [symbol |-> row.symbol, date |-> date, qty |-> qty,
                     price |-> price, n |-> row.n + 1]
    /\ UNCHANGED <<account, fx_series, positions, pc>>
    /\ UNCHANGED <<aggVars, outVars, runVars, extVars, alignVars, qtyVars, valVars>>

\* lines 684-695: the group ends; an open position is appended to the result
EmitPosition ==
    /\ pc = "replay"
    /\ row.symbol \in DOMAIN symbol_map
    /\ positions' = IF total_qty <= 0 THEN positions
                    ELSE Append(positions,
                                [account |-> account, symbol |-> row.symbol,
                                 ticker |-> symbol_map[row.symbol].ticker,
                                 quantity |-> total_qty, cost |-> total_cost])
    /\ pc' = "done"
    /\ UNCHANGED <<account, fx_series, total_qty, total_cost, prev_qty,
                   prev_cost, row, fx_obs, divisor>>
    /\ UNCHANGED <<aggVars, outVars, runVars, extVars, alignVars, qtyVars, valVars>>

NextPositions == SkipUnknownSymbol \/ ReplayTrade \/ EmitPosition
SpecPositions == InitPositions /\ [][NextPositions]_vars

Replayed == pc \in {"replay", "done"} /\ row.n > 0

\* the home-currency amount of the row replayed last (line 669)
RowFlow ==
    convert_to_krw(account, Num(row.price * row.qty), Num(row.date),
                   fx_series, FALSE).value

\* C2: a sell of s units, 0 < s < Q, against Q units with cost basis C leaves
\* Q - s units with cost basis C - (C / Q) * s, whatever the sale price and the
\* FX rate of the sale date; buy 10 at 100 then sell 4 leaves 6 units, cost 600.
C2_PartialSellAverageCost ==
    (Replayed /\ row.qty < 0 /\ prev_qty > 0 /\ -row.qty < prev_qty) =>
        /\ total_qty = prev_qty + row.qty
        /\ total_cost = RSub(prev_cost,
                             RMul(RDiv(prev_cost, R(prev_qty)), R(-row.qty)))
        /\ (prev_qty = 10 /\ prev_cost = R(1000) /\ row.qty = -4) =>
               (total_qty = 6 /\ total_cost = R(600))

\* the worked example, sold at 150 in the foreign-currency account at rate 2
C2_Witness ==
    /\ Replayed /\ account = "usa"
    /\ prev_qty = 10 /\ prev_cost = R(1000)
    /\ row.qty = -4 /\ row.price = 150 /\ fx_rate_on(row.date, fx_series) = 2
    /\ total_qty = 6 /\ total_cost = R(600)

\* C3: after every replayed trade (prices and FX rates non-negative) the cost
\* basis and the held quantity are >= 0, and the cost basis is divided only by
\* a held quantity > 0: a sell against a zero holding divides nothing.
C3_NonNegativeAndGuardedDivision ==
    Replayed =>
        /\ total_qty >= 0
        /\ RGeq0(total_cost)
        /\ notna(divisor) => divisor[1] > 0
        /\ (row.qty < 0 /\ prev_qty <= 0) => (isna(divisor) /\ total_cost = R(0))

\* a sell against the zero holding left by an earlier oversell
C3_Witness ==
    /\ Replayed /\ row.n = 3
    /\ row.qty < 0 /\ prev_qty = 0 /\ isna(divisor)
    /\ total_qty = 0 /\ total_cost = R(0)

\* C4: a trade that brings the held quantity to <= 0 resets quantity and cost
\* basis to 0, a buy into an empty position starts from cost basis 0 (its cost
\* basis is the amount of that buy alone), and a position of final quantity 0
\* is not emitted.
C4_PositionClose ==
    /\ Replayed =>
          /\ (prev_qty + row.qty <= 0) => (total_qty = 0 /\ total_cost = R(0))
          /\ (total_qty = 0) => (total_cost = R(0))
          /\ (row.qty > 0 /\ prev_qty = 0) =>
                 (prev_cost = R(0) /\ total_cost = R(RowFlow))
    /\ (pc = "done" /\ row.symbol \in DOMAIN symbol_map) =>
          /\ (total_qty = 0) => (positions = <<>>)
          /\ (total_qty > 0) =>
                 (/\ Len(positions) = 1
                  /\ positions[1].quantity = total_qty
                  /\ positions[1].cost = total_cost)

\* a position with a nonzero cost basis is sold out and nothing is emitted
C4_Witness ==
    /\ pc = "done" /\ row.n > 0
    /\ row.qty < 0 /\ prev_qty > 0 /\ prev_cost # R(0)
    /\ prev_qty + row.qty < 0
    /\ total_qty = 0 /\ total_cost = R(0) /\ positions = <<>>

\* a buy replayed as third row into a position that was emptied before
C4_WitnessBuyAfterClose ==
    /\ Replayed /\ row.n = 3 /\ row.qty > 0 /\ row.price > 0
    /\ prev_qty = 0 /\ total_qty = row.qty /\ total_cost = R(RowFlow)

\* C9: the FX rate that converts an event dated d is the most recent rate
\* observed on or before d; a rate observed after d is never used.
C9_FxRateNotAfterEvent ==
    (Replayed /\ notna(fx_obs)) => fx_obs[1] <= row.date

---------------------------------------------------------------------------
(* Ledger rows and the evaluation calendar. *)

\* A ledger row as read_trading_records returns it (update_fa.py 142-161):
\* the date and every numeric column are optional values
Row(a, s, d, p, q, inv, ev, div) ==
    [account |-> a, symbol |-> s, date |-> d, price |-> p, qty |-> q,
     invest |-> inv, eval |-> ev, dividend |-> div]

TradeRow(a, s, d, q, p) == Row(a, s, Num(d), Num(p), Num(q), NaN, NaN, NaN)

\* START_MONTH (update_fa.py 61) is a month-end: the end of month 1
START_MONTH == MonthLen

\* A timestamp is <<day, tod>>, tod = 0 at midnight and 1 at the last instant
\* of the day; Timestamp.normalize() keeps the day
normalize(ts) == ts[1]

\* Bug variant of build_evaluation_index: the end date is always appended
build_evaluation_index_append(start, end_ts) ==
    LET end    == normalize(end_ts)
        first  == (start + MonthLen - 1) \div MonthLen
        last   == end \div MonthLen
        month_ends == [i \in 1..(IF last >= first THEN last - first + 1 ELSE 0)
                          |-> (first + i - 1) * MonthLen]
    IN  Append(month_ends, end)

\* build_evaluation_index (update_fa.py 310-320): the month-ends in
\* [start, end] and the normalized end date itself when it is not the last of them
build_evaluation_index(start, end_ts) ==
    LET end    == normalize(end_ts)
        first  == (start + MonthLen - 1) \div MonthLen
        last   == end \div MonthLen
        month_ends == [i \in 1..(IF last >= first THEN last - first + 1 ELSE 0)
                          |-> (first + i - 1) * MonthLen]
        eval_index == IF month_ends # <<>> /\ month_ends[Len(month_ends)] = end
                      THEN month_ends
                      ELSE Append(month_ends, end)
    IN  IF eval_index = <<>> THEN <<end>> ELSE eval_index

---------------------------------------------------------------------------
(* build_quantity_series (update_fa.py 350-376). *)

RECURSIVE SumQty(_)
SumQty(rows) == IF rows = <<>> THEN 0 ELSE rows[1].qty[1] + SumQty(Tail(rows))

\* lines 357-360: rows with a quantity, a unit price, a nonzero quantity and a
\* symbol the registry maps to a ticker
ticker_of(r, smap) ==
    IF r.symbol \in DOMAIN smap THEN Num(smap[r.symbol].ticker) ELSE NaN

filter_trades(trades, smap) ==
    LET keep(r) == /\ notna(r.qty) /\ notna(r.price) /\ r.qty # Num(0)
                   /\ notna(ticker_of(r, smap))
    IN  SelectSeq(trades, keep)

\* Bug variant: the last row of a day replaces the day's quantity
daily_qty_last(group) ==
    LET days == {group[i].date[1] : i \in {j \in DOMAIN group : notna(group[j].date)}}
    IN  [d \in days |->
            LET same(r) == r.date = Num(d)
                rows == SelectSeq(group, same)
            IN  rows[Len(rows)].qty[1]]

\* lines 363-368: the signed quantities of one day are summed (rows without a
\* date fall out of the groupby)
daily_qty(group) ==
    LET days == {group[i].date[1] : i \in {j \in DOMAIN group : notna(group[j].date)}}
    IN  [d \in days |->
            LET same(r) == r.date = Num(d)
            IN  SumQty(SelectSeq(group, same))]

\* Bug variant: the daily quantities are not accumulated
cumsum_none(daily) == daily

\* line 369: Series.cumsum() over the date-sorted daily quantities
RECURSIVE CumAt(_, _)
CumAt(daily, d) ==
    LET before == {x \in DOMAIN daily : x < d}
    IN  daily[d] + (IF before = {} THEN 0 ELSE CumAt(daily, Max(before)))

cumsum(daily) == [d \in DOMAIN daily |-> CumAt(daily, d)]

\* lines 362-372: one series per (account, ticker), on the evaluation calendar
build_quantity_series(trades, smap, eval_index) ==
    LET filtered == filter_trades(trades, smap)
        keys == {<<filtered[i].account, ticker_of(filtered[i], smap)[1]>> :
                    i \in DOMAIN filtered}
    IN  [k \in keys |->
            LET in_group(r) == r.account = k[1] /\ ticker_of(r, smap) = Num(k[2])
                group == SelectSeq(filtered, in_group)
                cumulative == cumsum(daily_qty(group))
                filled == FFill(Reindex(Obs(cumulative),
                                        IndexUnion(DOMAIN cumulative, eval_index)))
            IN  FillNa0(Reindex(filled, eval_index))]

---------------------------------------------------------------------------
(* Specification SpecQty: a ledger is loaded row by row, rows of one       *)
(* (account, instrument, date) are permuted, and build_quantity_series is  *)
(* applied to the ledger and to its permutation.                           *)

MaxRows       == 2
MaxLedgerDate == 3
MaxLedgerQty  == 1

LedgerDates == 0..MaxLedgerDate
QtyPairs    == {<<"usa", "SPYM">>, <<"usa", "SPDR">>, <<"kor1", "RT">>}

\* rows that build_quantity_series must leave out: unknown symbol, no
\* quantity, zero quantity, no unit price, no date
SkippedRows ==
    { TradeRow("kor1", "ETC", 1, 1, 1),
      Row("kor1", "RT", Num(1), Num(1), NaN, NaN, NaN, NaN),
      Row("kor1", "RT", Num(1), Num(1), Num(0), NaN, NaN, NaN),
      Row("kor1", "RT", Num(1), NaN, Num(1), NaN, NaN, NaN),
      Row("kor1", "RT", NaN, Num(1), Num(1), NaN, NaN, NaN) }

QtyRows ==
    { TradeRow(g[1], g[2], d, q, 1) :
        g \in QtyPairs, d \in LedgerDates,
        q \in (-MaxLedgerQty..MaxLedgerQty) \ {0} } \cup SkippedRows

InitQty ==
    /\ records = <<>> /\ permuted = <<>>
    /\ qty_map = NaN /\ qty_map_perm = NaN
    /\ phase = "load"
    /\ target_index \in
          {Range(build_evaluation_index(START_MONTH, <<e, 1>>)) :
              e \in {MaxLedgerDate - 1, MaxLedgerDate}}
    /\ series = <<>> /\ aligned = NaN
    /\ IdlePos /\ IdleVal /\ IdleAgg /\ IdleOut /\ IdleRun /\ IdleExt

AppendRow ==
    /\ phase = "load"
    /\ Len(records) < MaxRows
    /\ \E r \in QtyRows :
          /\ records' = Append(records, r)
          /\ permuted' = Append(permuted, r)
    /\ UNCHANGED <<qty_map, qty_map_perm, phase>>
    /\ UNCHANGED <<aggVars, outVars, runVars, extVars, alignVars, posVars, valVars>>

SameInstrumentDay(r1, r2) ==
    /\ r1.account = r2.account
    /\ ticker_of(r1, symbol_map) = ticker_of(r2, symbol_map)
    /\ r1.date = r2.date

\* two rows of the same (account, instrument, date) change places
PermuteSameDay ==
    /\ phase \in {"load", "permute"}
    /\ \E i, j \in DOMAIN permuted :
          /\ i < j
          /\ permuted[i] # permuted[j]
          /\ SameInstrumentDay(permuted[i], permuted[j])
          /\ permuted' = [permuted EXCEPT ![i] = permuted[j], ![j] = permuted[i]]
    /\ phase' = "permute"
    /\ UNCHANGED <<records, qty_map, qty_map_perm>>
    /\ UNCHANGED <<aggVars, outVars, runVars, extVars, alignVars, posVars, valVars>>

BuildQuantitySeries ==
    /\ phase \in {"load", "permute"}
    /\ qty_map' = Num(build_quantity_series(records, symbol_map, target_index))
    /\ qty_map_perm' = Num(build_quantity_series(permuted, symbol_map, target_index))
    /\ phase' = "built"
    /\ UNCHANGED <<records, permuted>>
    /\ UNCHANGED <<aggVars, outVars, runVars, extVars, alignVars, posVars, valVars>>

NextQty == AppendRow \/ PermuteSameDay \/ BuildQuantitySeries
SpecQty == InitQty /\ [][NextQty]_vars

\* the rows of a ledger that are trades of the (account, ticker) pair k
TradesOf(recs, k) ==
    {i \in DOMAIN recs :
        /\ notna(recs[i].qty) /\ notna(recs[i].price) /\ recs[i].qty # Num(0)
        /\ recs[i].account = k[1]
        /\ ticker_of(recs[i], symbol_map) = Num(k[2])}

RECURSIVE SumQtyOf(_, _)
SumQtyOf(recs, I) ==
    IF I = {} THEN 0
    ELSE LET i == CHOOSE x \in I : TRUE
         IN  recs[i].qty[1] + SumQtyOf(recs, I \ {i})

\* C5: every value of every quantity series returned by build_quantity_series
\* is >= 0 at every evaluation date, also when more units are sold than held.
C5_QuantityNeverNegative ==
    phase = "built" =>
        \A k \in DOMAIN qty_map[1] : \A d \in target_index : qty_map[1][k][d] >= 0

\* C6: for the buy-only trades of one (account, instrument) the quantity series
\* has at every evaluation date d the sum of the quantities of the trades dated
\* <= d, which is 0 before the first trade.
C6_BuyOnlyCumulativeSum ==
    phase = "built" =>
        \A k \in DOMAIN qty_map[1] :
            (\A i \in TradesOf(records, k) : records[i].qty[1] > 0) =>
                /\ DOMAIN qty_map[1][k] = target_index
                /\ \A d \in target_index :
                      qty_map[1][k][d] =
                          SumQtyOf(records,
                                   {i \in TradesOf(records, k) :
                                       /\ notna(records[i].date)
                                       /\ records[i].date[1] <= d})

\* two buys of one instrument under its two labels, one before the first
\* evaluation date and one on the last
C6_Witness ==
    /\ phase = "built" /\ Len(records) = 2
    /\ target_index = {MonthLen, MaxLedgerDate} /\ MonthLen < MaxLedgerDate
    /\ records[1] = TradeRow("usa", "SPDR", MaxLedgerDate, 1, 1)
    /\ records[2] = TradeRow("usa", "SPYM", 1, 1, 1)
    /\ qty_map[1][<<"usa", "SPYM">>][MonthLen] = 1
    /\ qty_map[1][<<"usa", "SPYM">>][MaxLedgerDate] = 2

\* C7: permuting the ledger rows that share one (account, instrument, date)
\* leaves every quantity series unchanged.
C7_IntraDayOrderIrrelevant ==
    phase = "built" => qty_map = qty_map_perm

\* a buy and a sell of one instrument on one day, in both orders
C7_Witness ==
    /\ phase = "built" /\ Len(records) = 2
    /\ records[1] = permuted[2] /\ records[2] = permuted[1]
    /\ TradesOf(records, <<"usa", "SPYM">>) = {1, 2}
    /\ records[1].qty[1] > 0 /\ records[2].qty[1] < 0
    /\ records[1].date[1] <= Max(target_index)

---------------------------------------------------------------------------
(* compute_account_values (update_fa.py 386-402). *)

\* Bug variant: the value of a foreign instrument is left in its own currency
value_series_noconv(ticker, qty_series, price_df, fx, eval_index) ==
    LET price_series == align_series(price_df[ticker], eval_index)
    IN  [d \in eval_index |-> qty_series[d] * price_series[d]]

\* lines 395-399: quantity times forward-filled price, times the forward-filled
\* FX rate unless the ticker is a home-currency one
value_series(ticker, qty_series, price_df, fx, eval_index) ==
    LET price_series == align_series(price_df[ticker], eval_index)
        value == [d \in eval_index |-> qty_series[d] * price_series[d]]
    IN  IF ~is_krw_ticker(ticker)
        THEN LET fx_aligned == align_series(Obs(fx), eval_index)
             IN  [d \in eval_index |-> value[d] * fx_aligned[d]]
        ELSE value

\* lines 391-402: the loop over the items of qty_map, accumulating per account
RECURSIVE AccumulateValues(_, _, _, _, _, _)
AccumulateValues(keys, acc, qmap, price_df, fx, eval_index) ==
    IF keys = {} THEN acc
    ELSE LET k == CHOOSE x \in keys : TRUE
             rest == keys \ {k}
         IN  IF k[2] \notin DOMAIN price_df
             THEN AccumulateValues(rest, acc, qmap, price_df, fx, eval_index)
             ELSE LET v == value_series(k[2], qmap[k], price_df, fx, eval_index)
                      old == IF k[1] \in DOMAIN acc THEN acc[k[1]]
                             ELSE [d \in eval_index |-> 0]
                      new == [d \in eval_index |-> old[d] + v[d]]
                  IN  AccumulateValues(rest,
                          [a \in DOMAIN acc \cup {k[1]} |->
                              IF a = k[1] THEN new ELSE acc[a]],
                          qmap, price_df, fx, eval_index)

compute_account_values(qmap, price_df, fx, eval_index) ==
    AccumulateValues(DOMAIN qmap, <<>>, qmap, price_df, fx, eval_index)

---------------------------------------------------------------------------
(* Specification SpecValues: compute_account_values on bounded quantity    *)
(* maps, price tables and FX series.                                       *)

MaxHeld  == 1
MaxQuote == 2

\* quotes are observed the day before the first month-end and the day after it
QuoteDates == {MonthLen - 1, MonthLen + 1}
QuoteSeriesSet ==
    UNION {[D -> {Num(v) : v \in 1..MaxQuote}] : D \in SUBSET QuoteDates}
PriceTables ==
    UNION {[T -> QuoteSeriesSet] : T \in {{"SPYM", "R.KS"}, {"SPYM"}}}
FxTables == UNION {[D -> FxRates] : D \in SUBSET QuoteDates}
HeldKeys ==
    { {<<"usa", "SPYM">>},
      {<<"kor1", "R.KS">>, <<"kor1", "SPYM">>},
      {<<"usa", "SPYM">>, <<"kor1", "SPYM">>} }
Calendars ==
    {Range(build_evaluation_index(START_MONTH, <<e, 1>>)) :
        e \in {MonthLen, MonthLen + 1}}

InitValues ==
    /\ target_index \in Calendars
    /\ \E K \in HeldKeys : qty_map \in {Num(q) : q \in [K -> [target_index -> 0..MaxHeld]]}
    /\ price_src \in PriceTables
    /\ fx_series \in FxTables
    /\ account_values = NaN
    /\ series = <<>> /\ aligned = NaN
    /\ account = "kor1" /\ total_qty = 0 /\ total_cost = R(0) /\ prev_qty = 0
    /\ prev_cost = R(0) /\ row = NaN /\ fx_obs = NaN /\ divisor = NaN
    /\ positions = <<>> /\ pc = "idle"
    /\ records = <<>> /\ permuted = <<>> /\ qty_map_perm = NaN /\ phase = "idle"
    /\ month_idx = 0 /\ reports = <<>> /\ run = "idle"
    /\ IdleAgg /\ IdleOut /\ IdleRun /\ IdleExt

ComputeAccountValues ==
    /\ account_values = NaN
    /\ account_values' =
          Num(compute_account_values(qty_map[1], price_src, fx_series, target_index))
    /\ UNCHANGED <<price_src, month_idx, reports, run>>
    /\ UNCHANGED <<aggVars, outVars, runVars, extVars, alignVars, posVars, qtyVars>>

NextValues == ComputeAccountValues
SpecValues == InitValues /\ [][NextValues]_vars

RECURSIVE SumOver(_, _)
SumOver(S, f) ==
    IF S = {} THEN 0
    ELSE LET x == CHOOSE y \in S : TRUE IN f[x] + SumOver(S \ {x}, f)

\* the contribution of instrument k = (account, ticker) at date d
Contribution(k, d) ==
    LET q == qty_map[1][k][d]
        p == LastObs(price_src[k[2]], d)
    IN  IF is_krw_ticker(k[2]) THEN q * p ELSE q * p * LastObs(Obs(fx_series), d)

\* C10: at every evaluation date the valuation of an account is the sum over
\* its priced instruments of quantity * price * fxRate for a foreign-quoted
\* instrument and quantity * price for a home-quoted one, price and rate being
\* the most recent observations dated <= d.
C10_AccountValueIsSumOfContributions ==
    notna(account_values) =>
        LET priced == {k \in DOMAIN qty_map[1] : k[2] \in DOMAIN price_src}
        IN  /\ DOMAIN account_values[1] = {k[1] : k \in priced}
            /\ \A a \in DOMAIN account_values[1] : \A d \in target_index :
                  account_values[1][a][d] =
                      SumOver({k \in priced : k[1] = a},
                              [k \in priced |-> Contribution(k, d)])

\* the home-currency account holds a home-quoted and a foreign-quoted
\* instrument, the FX rate is 2, and both contribute
C10_Witness ==
    /\ notna(account_values)
    /\ DOMAIN qty_map[1] = {<<"kor1", "R.KS">>, <<"kor1", "SPYM">>}
    /\ DOMAIN price_src = {"SPYM", "R.KS"}
    /\ \E d \in target_index :
          /\ qty_map[1][<<"kor1", "R.KS">>][d] = 1
          /\ qty_map[1][<<"kor1", "SPYM">>][d] = 1
          /\ LastObs(price_src["R.KS"], d) = 1
          /\ LastObs(price_src["SPYM"], d) = 2
          /\ LastObs(Obs(fx_series), d) = 2
          /\ account_values[1]["kor1"][d] = 5

---------------------------------------------------------------------------
(* The externally valued account and the account valuation table. *)

\* groupby("date")[column].sum().sort_index() over rows [date, v]: rows
\* without a date fall out
RECURSIVE SumV(_)
SumV(rows) == IF rows = <<>> THEN 0 ELSE rows[1].v + SumV(Tail(rows))

DailySum(rows) ==
    LET days == {rows[i].date[1] : i \in {j \in DOMAIN rows : notna(rows[j].date)}}
    IN  [d \in days |->
            LET same(r) == r.date = Num(d)
            IN  SumV(SelectSeq(rows, same))]

\* build_gongje_account_series (update_fa.py 405-433)
build_gongje_account_series(recs, eval_index) ==
    LET is_sema(r)  == r.account = "sema"
        gong        == SelectSeq(recs, is_sema)
        zeros       == [d \in eval_index |-> 0]
        gong_amount(r) == fillna0(r.price) * fillna0(r.qty)
        has_eval(r) == notna(r.eval)
        eval_rows   == SelectSeq(gong, has_eval)
        mask(r)     == /\ gong_amount(r) > 0
                       /\ (isna(r.invest) \/ Num(gong_amount(r)) = r.invest)
        gong_valid  == SelectSeq(gong, mask)
    IN  IF gong = <<>> THEN zeros
        ELSE IF eval_rows # <<>>
        THEN LET daily_eval ==
                   DailySum([i \in DOMAIN eval_rows |->
                               [date |-> eval_rows[i].date, v |-> eval_rows[i].eval[1]]])
             IN  align_series(Obs(daily_eval), eval_index)
        ELSE IF gong_valid = <<>> THEN zeros
        ELSE LET daily ==
                   DailySum([i \in DOMAIN gong_valid |->
                               [date |-> gong_valid[i].date,
                                v |-> gong_amount(gong_valid[i])]])
             IN  align_series(Obs(cumsum(daily)), eval_index)

\* download_adj_close (update_fa.py 328-347) against the quote source src
\* (ticker -> dated closes).  The request ends two days after end_date, end
\* excluded, so the day after end_date is the last one delivered; every model
\* day lies after the start of the request.  raised: the RuntimeError of line 343
download_adj_close(tickers, end_ts, src) ==
    LET data   == [t \in tickers |->
                     [d \in {x \in DOMAIN src[t] : x <= normalize(end_ts) + 1}
                         |-> src[t][d]]]
        index  == UNION {DOMAIN data[t] : t \in tickers}
    IN  IF index = {}
        THEN [raised |-> TRUE, value |-> <<>>]
        ELSE [raised |-> FALSE,
              value |-> [t \in tickers |-> FFill(Reindex(data[t], index))]]

\* Series.loc[:date]
LocUpTo(s, date) == [d \in {x \in DOMAIN s : x <= date} |-> s[d]]

\* build_account_valuation_df (update_fa.py 436-468): one column per account
\* on the evaluation calendar (the column order is not modelled)
build_account_valuation_df(recs, fx, end_ts, src) ==
    LET eval_seq   == build_evaluation_index(START_MONTH, end_ts)
        eval_index == Range(eval_seq)
        not_sema(r) == r.account # "sema"
        trades     == SelectSeq(recs, not_sema)
        qmap       == build_quantity_series(trades, symbol_map, eval_index)
        tickers    == {k[2] : k \in DOMAIN qmap}
        dl         == download_adj_close(tickers, end_ts, src)
        fx_subset  == LocUpTo(fx, eval_seq[Len(eval_seq)])
        traded     == IF tickers = {} THEN <<>>
                      ELSE compute_account_values(qmap, dl.value, fx_subset, eval_index)
        gong_series == build_gongje_account_series(recs, eval_index)
    IN  IF tickers # {} /\ dl.raised
        THEN [raised |-> TRUE, df |-> <<>>]
        ELSE [raised |-> FALSE,
              df |-> [a \in DOMAIN traded \cup {"sema"} |->
                         IF a = "sema" THEN gong_series ELSE traded[a]]]

---------------------------------------------------------------------------
(* main (update_fa.py 1492-1538): the ledgers and quote sources of a run,  *)
(* its months and the rows of a month.                                     *)

MaxValRows == 2

ValPairs == {<<"usa", "SPYM">>, <<"kor1", "RT">>}
\* rows of the externally valued account: a purchase (unit price 1, quantity
\* 2, no contribution amount) and a valuation snapshot of 5
SemaRows ==
    { Row("sema", "FD", Num(d), Num(1), Num(2), NaN, NaN, NaN) : d \in LedgerDates }
    \cup
    { Row("sema", "FD", Num(d), NaN, NaN, NaN, Num(5), NaN) : d \in LedgerDates }
\* a dividend of 2 paid in the first month
DividendRows == { Row("kor1", "RT", Num(1), NaN, NaN, NaN, NaN, Num(2)) }
ValRows ==
    { TradeRow(g[1], g[2], d, q, 1) :
        g \in ValPairs, d \in LedgerDates, q \in {-1, 1} }
    \cup SemaRows \cup DividendRows

\* a source whose closes begin on the last day of the second month
LateQuotes == { ((2 * MonthLen) :> Num(1)) }

\* the quote source delivers the same closes for every ticker
QuoteSources ==
    { [t \in {"SPYM", "R.KS"} |-> q] : q \in QuoteSeriesSet \cup LateQuotes }

\* the calendar month of a day; day 0 is in month 0, before START_MONTH
MonthOf(d) == (d + MonthLen - 1) \div MonthLen

\* Period.to_timestamp(how="end") (line 1518): the last instant of the month
MonthEnd(m) == <<m * MonthLen, 1>>

\* records["date"].dropna().max() (line 1501), NaN when no row has a date
latest_date(recs) ==
    LET dated == {recs[i].date[1] : i \in {j \in DOMAIN recs : notna(recs[j].date)}}
    IN  IF dated = {} THEN NaN ELSE Num(Max(dated))

\* lines 1507-1511: the months of the run
months(latest, full) ==
    LET first == MonthOf(START_MONTH)
        last  == MonthOf(latest)
        all   == IF last >= first
                 THEN [i \in 1..(last - first + 1) |-> first + i - 1]
                 ELSE <<last>>
    IN  IF full THEN all ELSE <<all[Len(all)]>>

\* line 1519: the rows dated on or before the month end
records_upto(recs, month_end) ==
    LET upto(r) == notna(r.date) /\ r.date[1] <= month_end[1]
    IN  SelectSeq(recs, upto)

---------------------------------------------------------------------------
(* Specification SpecSema: build_gongje_account_series (update_fa.py       *)
(* 405-433) on bounded ledgers of the externally valued account.           *)

MaxSemaRows == 2

\* rows of the 'sema' account: a purchase of 2 units at unit price 1 (no
\* contribution amount, the matching amount 2, or another amount 3), a
\* withdrawal of 1 unit, a contribution of 3 without price and quantity, a
\* valuation snapshot of 3 or 5; and a row of another account
SemaLedgerRows ==
    { Row("sema", "FD", Num(d), Num(1), Num(2), inv, NaN, NaN) :
        d \in LedgerDates, inv \in {NaN, Num(2), Num(3)} }
    \cup
    { Row("sema", "FD", Num(d), Num(1), Num(-1), inv, NaN, NaN) :
        d \in LedgerDates, inv \in {NaN, Num(-1)} }
    \cup
    { Row("sema", "FD", Num(d), NaN, NaN, Num(3), NaN, NaN) : d \in LedgerDates }
    \cup
    { Row("sema", "FD", Num(d), NaN, NaN, NaN, Num(v), NaN) :
        d \in LedgerDates, v \in {3, 5} }
    \cup
    { Row("kor1", "RT", Num(d), Num(1), Num(1), NaN, Num(4), NaN) : d \in LedgerDates }

InitSema ==
    /\ records = <<>>
    /\ \E e \in {MaxLedgerDate - 1, MaxLedgerDate} :
          target_index = Range(build_evaluation_index(START_MONTH, <<e, 1>>))
    /\ sema_series = NaN
    /\ phase = "read"
    /\ permuted = <<>> /\ qty_map = NaN /\ qty_map_perm = NaN
    /\ series = <<>> /\ aligned = NaN
    /\ account_df = NaN /\ summary_df = NaN /\ end_date = NaN /\ pivot = NaN
    /\ IdlePos /\ IdleVal /\ IdleOut /\ IdleRun /\ IdleExt

\* one more row of the ledger
AppendSemaRow ==
    /\ phase = "read"
    /\ Len(records) < MaxSemaRows
    /\ \E r \in SemaLedgerRows : records' = Append(records, r)
    /\ UNCHANGED <<permuted, qty_map, qty_map_perm, phase>>
    /\ UNCHANGED <<alignVars, posVars, valVars, aggVars, outVars, runVars, extVars>>

\* line 461: gong_series = build_gongje_account_series(records, eval_index)
BuildGongjeSeries ==
    /\ phase = "read"
    /\ sema_series' = Num(build_gongje_account_series(records, target_index))
    /\ phase' = "built"
    /\ UNCHANGED <<records, permuted, qty_map, qty_map_perm>>
    /\ UNCHANGED <<account_df, summary_df, end_date, pivot>>
    /\ UNCHANGED <<alignVars, posVars, valVars, outVars, runVars, extVars>>

NextSema == AppendSemaRow \/ BuildGongjeSeries
SpecSema == InitSema /\ [][NextSema]_vars

\* the rows of the externally valued account
SemaOf(recs) ==
    LET is_sema(r) == r.account = "sema"
    IN  SelectSeq(recs, is_sema)

\* the contribution amount of a row: the contribution column when it is
\* filled, else the signed purchase amount unit price * quantity
ContributionOf(r) ==
    IF notna(r.invest) THEN r.invest[1] ELSE fillna0(r.price) * fillna0(r.qty)

RECURSIVE NetContribution(_, _)
NetContribution(rows, d) ==
    IF rows = <<>> THEN 0
    ELSE (IF rows[1].date[1] <= d THEN ContributionOf(rows[1]) ELSE 0)
         + NetContribution(Tail(rows), d)

\* C11: when the rows of 'sema' carry at least one valuation snapshot, the
\* valuation at an evaluation date d is the snapshot most recently dated <= d;
\* otherwise it is the cumulative net contribution, the sum of the
\* contribution amounts dated <= d.
C11_SemaSnapshotElseNetContribution ==
    phase = "built" =>
        \A d \in target_index :
            LET gong  == SemaOf(records)
                snaps == {i \in DOMAIN gong : notna(gong[i].eval)}
                upto  == {i \in snaps : gong[i].date[1] <= d}
            IN  IF snaps # {}
                THEN upto # {} =>
                       \E i \in upto :
                          /\ \A j \in upto : gong[j].date[1] <= gong[i].date[1]
                          /\ sema_series[1][d] = gong[i].eval[1]
                ELSE sema_series[1][d] = NetContribution(gong, d)

\* the snapshot branch alone, for ledgers with at most one snapshot a day
SemaSnapshotBranch ==
    phase = "built" =>
        \A d \in target_index :
            LET gong  == SemaOf(records)
                snaps == {i \in DOMAIN gong : notna(gong[i].eval)}
                upto  == {i \in snaps : gong[i].date[1] <= d}
            IN  (/\ snaps # {}
                 /\ \A i, j \in snaps : i # j => gong[i].date # gong[j].date)
                => IF upto = {} THEN sema_series[1][d] = 0
                   ELSE \E i \in upto :
                          /\ \A j \in upto : gong[j].date[1] <= gong[i].date[1]
                          /\ sema_series[1][d] = gong[i].eval[1]

\* the fallback branch for ledgers of purchases whose contribution amount is
\* absent or equal to the purchase amount
SemaPurchaseFallback ==
    phase = "built" =>
        \A d \in target_index :
            LET gong == SemaOf(records)
            IN  (\A i \in DOMAIN gong :
                     /\ isna(gong[i].eval)
                     /\ fillna0(gong[i].price) * fillna0(gong[i].qty) > 0
                     /\ (isna(gong[i].invest)
                           \/ gong[i].invest[1]
                                = fillna0(gong[i].price) * fillna0(gong[i].qty)))
                => sema_series[1][d] = NetContribution(gong, d)


---------------------------------------------------------------------------
(* build_account_assets (update_fa.py 1338-1394): the account summary.     *)

\* ACCOUNT_ORDER (update_fa.py 63), the accounts of the model
ACCOUNT_ORDER == <<"usa", "kor1", "sema">>

\* lines 1340-1344: records[records[invest].notna()].groupby(account)[invest].sum()
RECURSIVE SumInvest(_)
SumInvest(rows) ==
    IF rows = <<>> THEN 0 ELSE rows[1].invest[1] + SumInvest(Tail(rows))

investment_series(recs) ==
    LET has_invest(r) == notna(r.invest)
        rows          == SelectSeq(recs, has_invest)
    IN  [a \in {rows[i].account : i \in DOMAIN rows} |->
            LET of_account(r) == r.account = a
            IN  SumInvest(SelectSeq(rows, of_account))]

\* lines 1346 and 986: the rows with a dividend > 0
dividend_rows(recs) ==
    LET paid(r) == notna(r.dividend) /\ r.dividend[1] > 0
    IN  SelectSeq(recs, paid)

\* lines 1349 and 996: convert_to_krw(row[account], row[dividend], row[date], fx_series)
dividend_krw(r, fx) ==
    convert_to_krw(r.account, r.dividend, r.date, fx, FALSE)

RECURSIVE SumDividendKrw(_, _)
SumDividendKrw(rows, fx) ==
    IF rows = <<>> THEN 0
    ELSE dividend_krw(rows[1], fx).value + SumDividendKrw(Tail(rows), fx)

\* lines 1346-1354: the converted dividends by account
dividends_by_account(recs, fx) ==
    LET rows == dividend_rows(recs)
    IN  [a \in {rows[i].account : i \in DOMAIN rows} |->
            LET of_account(r) == r.account = a
            IN  SumDividendKrw(SelectSeq(rows, of_account), fx)]

\* the FX observations read for the dividends: <<event date, observation date>>
dividend_fx_reads(recs, fx) ==
    LET rows == dividend_rows(recs)
    IN  { <<rows[i].date[1], dividend_krw(rows[i], fx).obs[1]>> :
            i \in {j \in DOMAIN rows : notna(dividend_krw(rows[j], fx).obs)} }

\* line 1356: account_df.iloc[-1].fillna(0.0); the table is account -> date -> value
latest_values(adf) ==
    [a \in DOMAIN adf |-> adf[a][Max(DOMAIN adf[a])]]

RECURSIVE SumLatest(_, _)
SumLatest(latest, S) ==
    IF S = {} THEN 0
    ELSE LET a == CHOOSE x \in S : TRUE
         IN  latest[a] + SumLatest(latest, S \ {a})

\* line 1357
total_valuation(latest) == SumLatest(latest, DOMAIN latest)

\* Bug variant: no rate for a negative invested amount either
profit_rate_positive(profit, invested) ==
    IF invested > 0 THEN Num(RNorm(profit, invested)) ELSE NaN

\* line 1364 and line 1389: profit / invested, None when invested is 0
profit_rate(profit, invested) ==
    IF invested # 0 THEN Num(RNorm(profit, invested)) ELSE NaN

\* Bug variant: the ratio is inverted
weight_inverted(valuation, total) ==
    IF total # 0 THEN RNorm(total, valuation) ELSE R(0)

\* line 1365: valuation / total_valuation, 0.0 when the total is 0
weight(valuation, total) ==
    IF total # 0 THEN RNorm(valuation, total) ELSE R(0)

\* lines 1359-1377: the row of one account
account_row(a, latest, invest, divs) ==
    LET valuation == latest[a]
        invested  == IF a \in DOMAIN invest THEN invest[a] ELSE 0
        profit    == valuation - invested
    IN  [account |-> a, invested |-> invested, valuation |-> valuation,
         profit |-> profit, profit_rate |-> profit_rate(profit, invested),
         weight |-> weight(valuation, total_valuation(latest)),
         dividend |-> IF a \in DOMAIN divs THEN divs[a] ELSE 0]

RECURSIVE SumField(_, _)
SumField(rows, f) ==
    IF rows = <<>> THEN 0 ELSE rows[1][f] + SumField(Tail(rows), f)

\* lines 1384-1392: the totals row (the source labels it with the Korean word
\* for total)
total_row(rows) ==
    [account |-> "total",
     invested |-> SumField(rows, "invested"),
     valuation |-> SumField(rows, "valuation"),
     profit |-> SumField(rows, "profit"),
     profit_rate |-> profit_rate(SumField(rows, "profit"), SumField(rows, "invested")),
     weight |-> R(1),
     dividend |-> SumField(rows, "dividend")]

\* build_account_assets (update_fa.py 1338-1394).  An account whose latest
\* valuation is 0 has no row; without any row the frame has no columns and
\* line 1380 raises KeyError (raised, no table)
build_account_assets(recs, adf, fx) ==
    LET invest  == investment_series(recs)
        divs    == dividends_by_account(recs, fx)
        latest  == latest_values(adf)
        shown(a) == a \in DOMAIN latest /\ latest[a] # 0
        ordered == SelectSeq(ACCOUNT_ORDER, shown)
        rows    == [i \in DOMAIN ordered |-> account_row(ordered[i], latest, invest, divs)]
    IN  IF rows = <<>>
        THEN [raised |-> TRUE, table |-> <<>>]
        ELSE [raised |-> FALSE, table |-> Append(rows, total_row(rows))]


---------------------------------------------------------------------------
(* Specification SpecAssets: build_account_assets on bounded ledgers,      *)
(* valuation tables and FX series.                                         *)

MaxAssetRows == 2

\* contribution rows (a withdrawal among them) and dividend rows; the dividend
\* of 0 is not a dividend event (line 1346)
AssetRows ==
    { Row(c[1], "", Num(1), NaN, NaN, Num(c[2]), NaN, NaN) :
        c \in {<<"usa", 2>>, <<"kor1", 2>>, <<"kor1", -2>>, <<"sema", 1>>} }
    \cup
    { Row("usa", "SPYM", Num(d), NaN, NaN, NaN, NaN, Num(1)) : d \in {1, 2} }
    \cup
    { Row("kor1", "RT", Num(1), NaN, NaN, NaN, NaN, Num(2)),
      Row("usa", "SPYM", Num(1), NaN, NaN, NaN, NaN, Num(0)) }

\* valuation tables on the calendar {MonthLen, MonthLen + 1}: every account is
\* worth 1 on the first date; an oversold account has a negative value
AssetTables ==
    { [a \in {"usa", "kor1", "sema"} |->
          (MonthLen :> 1) @@ ((MonthLen + 1) :>
              (IF a = "usa" THEN u ELSE IF a = "kor1" THEN k ELSE g))] :
        u \in {0, 1, 2}, k \in {-1, 0, 1}, g \in {0, 2} }

\* FX series: the first observation lies on or after the first dividend date
AssetFx == { (1 :> 1), (1 :> 1) @@ (2 :> 2), (2 :> 2) }

InitAssets ==
    /\ records = <<>>
    /\ account_df \in AssetTables
    /\ fx_series \in AssetFx
    /\ summary_df = NaN
    /\ phase = "read"
    /\ permuted = <<>> /\ qty_map = NaN /\ qty_map_perm = NaN
    /\ account = "kor1" /\ total_qty = 0 /\ total_cost = R(0) /\ prev_qty = 0
    /\ prev_cost = R(0) /\ row = NaN /\ fx_obs = NaN /\ divisor = NaN
    /\ positions = <<>> /\ pc = "idle"
    /\ sema_series = NaN /\ end_date = NaN /\ pivot = NaN
    /\ IdleAlign /\ IdleVal /\ IdleOut /\ IdleRun /\ IdleExt

\* one more row of the ledger
AppendAssetRow ==
    /\ phase = "read"
    /\ Len(records) < MaxAssetRows
    /\ \E r \in AssetRows : records' = Append(records, r)
    /\ UNCHANGED <<permuted, qty_map, qty_map_perm, phase>>
    /\ UNCHANGED <<alignVars, posVars, valVars, aggVars, outVars, runVars, extVars>>

\* line 1286: summary_df = build_account_assets(records, account_df, fx_series);
\* fx_obs keeps the FX observations read for the dividends
BuildAccountAssets ==
    /\ phase = "read"
    /\ summary_df' = Num(build_account_assets(records, account_df, fx_series))
    /\ fx_obs' = Num(dividend_fx_reads(records, fx_series))
    /\ phase' = "built"
    /\ UNCHANGED <<records, permuted, qty_map, qty_map_perm>>
    /\ UNCHANGED <<account, fx_series, total_qty, total_cost, prev_qty, prev_cost,
                   row, divisor, positions, pc>>
    /\ UNCHANGED <<sema_series, account_df, end_date, pivot>>
    /\ UNCHANGED <<alignVars, valVars, outVars, runVars, extVars>>

NextAssets == AppendAssetRow \/ BuildAccountAssets
SpecAssets == InitAssets /\ [][NextAssets]_vars

Returned == phase = "built" /\ ~summary_df[1].raised
Table == summary_df[1].table
AccountRows == SubSeq(Table, 1, Len(Table) - 1)
TotalsRow == Table[Len(Table)]

\* C12: in the returned table profitRate is null exactly when invested = 0 and
\* is profit / invested otherwise, in every account row and in the totals row;
\* no ratio of the table has a zero denominator.
C12_ProfitRateNullIffNoInvestment ==
    Returned =>
        \A i \in DOMAIN Table :
            LET r == Table[i]
            IN  /\ isna(r.profit_rate) <=> r.invested = 0
                /\ notna(r.profit_rate) =>
                      /\ r.profit_rate[1][2] > 0
                      /\ r.profit_rate[1][1] * r.invested
                            = r.profit * r.profit_rate[1][2]
                /\ r.weight[2] > 0

C12_Witness ==
    /\ Returned
    /\ \E i, j \in DOMAIN AccountRows :
          /\ isna(AccountRows[i].profit_rate)
          /\ notna(AccountRows[j].profit_rate)
          /\ AccountRows[j].invested < 0
    /\ notna(TotalsRow.profit_rate)

\* the totals row of an account summary that is returned
TotalsRowOfReturnedTable ==
    Returned =>
        /\ TotalsRow.account = "total"
        /\ \A f \in {"invested", "valuation", "profit", "dividend"} :
              TotalsRow[f] = SumField(AccountRows, f)
        /\ IF TotalsRow.invested = 0 THEN isna(TotalsRow.profit_rate)
           ELSE /\ notna(TotalsRow.profit_rate)
                /\ TotalsRow.profit_rate[1][1] * TotalsRow.invested
                      = TotalsRow.profit * TotalsRow.profit_rate[1][2]

\* C13: for every ledger and valuation table, one where every account's
\* latest valuation is 0 included, build_account_assets returns a table whose
\* last row is a totals row: invested, valuation, profit and dividend are the
\* sums of the account rows and profitRate is total profit / total invested.
C13_TotalsRowForEveryTable ==
    phase = "built" => (~summary_df[1].raised /\ TotalsRowOfReturnedTable)

RECURSIVE SumWeights(_)
SumWeights(rows) ==
    IF rows = <<>> THEN R(0) ELSE RAdd(rows[1].weight, SumWeights(Tail(rows)))

\* C14: the weight of an account row is its latest valuation divided by the
\* total latest valuation of all accounts; when the total is not 0 the weights
\* of the account rows sum to 1, the weight of the totals row.
C14_WeightsSumToOne ==
    Returned =>
        LET total == total_valuation(latest_values(account_df))
        IN  total # 0 =>
              /\ \A i \in DOMAIN AccountRows :
                    /\ AccountRows[i].weight[2] > 0
                    /\ AccountRows[i].weight[1] * total
                          = AccountRows[i].valuation * AccountRows[i].weight[2]
                    /\ AccountRows[i].valuation
                          = latest_values(account_df)[AccountRows[i].account]
              /\ SumWeights(AccountRows) = R(1)
              /\ TotalsRow.weight = R(1)

C14_Witness ==
    /\ Returned
    /\ Len(AccountRows) >= 2
    /\ AccountRows[1].weight # AccountRows[2].weight
    /\ \E i \in DOMAIN AccountRows : AccountRows[i].valuation < 0
    /\ total_valuation(latest_values(account_df)) # 0

\* C15: every dividend of a foreign-currency account is converted with the
\* most recent FX rate dated on or before its own event date, never with a
\* later one; the dividends of a home-currency account are not converted.
C15_DividendAtOwnDateRate ==
    phase = "built" =>
        /\ \A rd \in fx_obs[1] :
              /\ rd[2] <= rd[1]
              /\ \A o \in DOMAIN fx_series : o <= rd[1] => o <= rd[2]
        /\ \A i \in DOMAIN dividend_rows(records) :
              LET r == dividend_rows(records)[i]
              IN  r.account \notin USD_ACCOUNTS =>
                     dividend_krw(r, fx_series).value = r.dividend[1]

\* the same for the dividends dated on or after the first FX observation
DividendRateWhenObserved ==
    phase = "built" =>
        \A rd \in fx_obs[1] :
            (\E o \in DOMAIN fx_series : o <= rd[1]) =>
                /\ rd[2] <= rd[1]
                /\ \A o \in DOMAIN fx_series : o <= rd[1] => o <= rd[2]


---------------------------------------------------------------------------
(* load_dividend_pivot (update_fa.py 982-1008): the monthly dividend pivot. *)

\* the number of months of pd.DateOffset(months=12) (line 990)
WINDOW_MONTHS == 12

\* line 990: (end_date - pd.DateOffset(months=12)).replace(day=1): the first
\* day of the month twelve months before the month of end_date, at the time
\* of day of end_date
cutoff(end_ts) ==
    <<(MonthOf(end_ts[1]) - WINDOW_MONTHS - 1) * MonthLen + 1, end_ts[2]>>

\* timestamp comparison a >= b
TsGeq(a, b) == a[1] > b[1] \/ (a[1] = b[1] /\ a[2] >= b[2])

\* line 991: dividends[date] >= cutoff; ledger dates are midnights
in_window(r, end_ts) ==
    /\ notna(r.date)
    /\ TsGeq(<<r.date[1], 0>>, cutoff(end_ts))

\* lines 1001-1004: groupby([month, symbol])[converted].sum().unstack(fill_value=0)
pivot_cell(rows, fx, month, symbol) ==
    LET cell(r) == MonthOf(r.date[1]) = month /\ r.symbol = symbol
    IN  SumDividendKrw(SelectSeq(rows, cell), fx)

\* load_dividend_pivot (update_fa.py 982-1008); raised: the ValueError of
\* lines 988 and 993.  The pivot is month -> symbol -> converted amount
load_dividend_pivot(recs, fx, end_ts) ==
    LET dividends == dividend_rows(recs)
        recent(r) == in_window(r, end_ts)
        rows      == SelectSeq(dividends, recent)
        month_set == {MonthOf(rows[i].date[1]) : i \in DOMAIN rows}
        symbols   == {rows[i].symbol : i \in DOMAIN rows}
        kept      == {c \in symbols :
                         \E m \in month_set : pivot_cell(rows, fx, m, c) # 0}
    IN  IF dividends = <<>> \/ rows = <<>>
        THEN [raised |-> TRUE, pivot |-> <<>>]
        ELSE [raised |-> FALSE,
              pivot |-> [m \in month_set |->
                            [c \in kept |-> pivot_cell(rows, fx, m, c)]]]

---------------------------------------------------------------------------
(* Specification SpecDividends: the dividend pivot of one month of main    *)
(* (update_fa.py 1518-1519, 1316) on bounded ledgers.                      *)

MaxDivRows == 2

\* the latest month of the ledger
AsOfMonth == WINDOW_MONTHS + 2

\* dividend dates around both ends of the window: the first and the last day
\* of the first three months, the last day of the month before the latest
\* one, the last day of the latest month and the day after it
DivDates ==
    { 1, MonthLen, MonthLen + 1, 2 * MonthLen, 2 * MonthLen + 1,
      (AsOfMonth - 1) * MonthLen, AsOfMonth * MonthLen, AsOfMonth * MonthLen + 1 }

DivRows ==
    { Row("usa", "SPYM", Num(d), NaN, NaN, NaN, NaN, Num(1)) : d \in DivDates }
    \cup
    { Row("kor1", "RT", Num(d), NaN, NaN, NaN, NaN, Num(2)) : d \in DivDates }
    \cup
    { Row("kor1", "RT", Num(d), NaN, NaN, NaN, NaN, Num(0)) :
        d \in {AsOfMonth * MonthLen} }

\* the ledger of an instrument that pays a dividend on the last day of every
\* month up to the latest one
MonthlyDividends ==
    [i \in 1..AsOfMonth |->
        Row("kor1", "RT", Num(i * MonthLen), NaN, NaN, NaN, NaN, Num(2))]

\* FX series fetched from a week before the first ledger date on
DivFx == { (1 :> 1), (1 :> 1) @@ ((2 * MonthLen) :> 2) }

InitDividends ==
    /\ records \in {<<>>, MonthlyDividends}
    /\ fx_series \in DivFx
    /\ end_date \in {Num(MonthEnd(AsOfMonth - 1)), Num(MonthEnd(AsOfMonth))}
    /\ pivot = NaN
    /\ phase = "read"
    /\ permuted = <<>> /\ qty_map = NaN /\ qty_map_perm = NaN
    /\ account = "kor1" /\ total_qty = 0 /\ total_cost = R(0) /\ prev_qty = 0
    /\ prev_cost = R(0) /\ row = NaN /\ fx_obs = NaN /\ divisor = NaN
    /\ positions = <<>> /\ pc = "idle"
    /\ sema_series = NaN /\ account_df = NaN /\ summary_df = NaN
    /\ IdleAlign /\ IdleVal /\ IdleOut /\ IdleRun /\ IdleExt

\* one more row of the ledger
AppendDividendRow ==
    /\ phase = "read"
    /\ Len(records) < MaxDivRows
    /\ \E r \in DivRows : records' = Append(records, r)
    /\ UNCHANGED <<permuted, qty_map, qty_map_perm, phase>>
    /\ UNCHANGED <<alignVars, posVars, valVars, aggVars, outVars, runVars, extVars>>

\* lines 1519, 1522 and 1316: the pivot of the month ending at end_date, from
\* the rows and the FX observations dated up to it
LoadDividendPivot ==
    /\ phase = "read"
    /\ pivot' = Num(load_dividend_pivot(records_upto(records, end_date[1]),
                                        LocUpTo(fx_series, end_date[1][1]),
                                        end_date[1]))
    /\ phase' = "built"
    /\ UNCHANGED <<records, permuted, qty_map, qty_map_perm>>
    /\ UNCHANGED <<sema_series, account_df, summary_df, end_date>>
    /\ UNCHANGED <<alignVars, posVars, valVars, outVars, runVars, extVars>>

NextDividends == AppendDividendRow \/ LoadDividendPivot
SpecDividends == InitDividends /\ [][NextDividends]_vars

PivotReturned == phase = "built" /\ ~pivot[1].raised
Pivot == pivot[1].pivot

\* the trailing 12-month window ending at the as-of date: the dates after
\* end_date - 12 months and up to end_date
InTrailingWindow(d) ==
    /\ TsGeq(end_date[1], <<d, 0>>)
    /\ ~TsGeq(<<end_date[1][1] - WINDOW_MONTHS * MonthLen, end_date[1][2]>>, <<d, 0>>)

\* the dividend events of the ledger dated in the trailing window
WindowDividends ==
    LET inside(r) == notna(r.date) /\ InTrailingWindow(r.date[1])
    IN  SelectSeq(dividend_rows(records), inside)

\* C16: only dividends dated in the trailing 12-month window ending at the
\* as-of date contribute: every month row of the pivot is one of the 12
\* months ending at the month of the as-of date, none after it and none more
\* than 12 months before it, so the pivot never has more than 12 month rows.
C16_TrailingTwelveMonths ==
    PivotReturned =>
        /\ \A m \in DOMAIN Pivot :
              /\ m <= MonthOf(end_date[1][1])
              /\ m > MonthOf(end_date[1][1]) - WINDOW_MONTHS
              /\ \E i \in DOMAIN WindowDividends :
                    MonthOf(WindowDividends[i].date[1]) = m
        /\ Cardinality(DOMAIN Pivot) <= WINDOW_MONTHS

\* no event dated after the as-of date contributes
NoDividendAfterAsOf ==
    PivotReturned => \A m \in DOMAIN Pivot : m <= MonthOf(end_date[1][1])

\* C17: the pivot has a row for exactly the calendar months in which an
\* in-window dividend was recorded, each cell is the sum of the converted
\* dividends of its month and instrument, and no instrument column is all-zero.
C17_PivotRowsAndCells ==
    PivotReturned =>
        /\ DOMAIN Pivot
              = {MonthOf(WindowDividends[i].date[1]) : i \in DOMAIN WindowDividends}
        /\ \A m \in DOMAIN Pivot : \A c \in DOMAIN Pivot[m] :
              Pivot[m][c] = pivot_cell(WindowDividends,
                                       LocUpTo(fx_series, end_date[1][1]), m, c)
        /\ \A m \in DOMAIN Pivot : \A c \in DOMAIN Pivot[m] :
              \E n \in DOMAIN Pivot : Pivot[n][c] # 0

\* the dividend events that pass the filter of line 991
FilteredDividends ==
    LET passes(r) == in_window(r, end_date[1])
    IN  SelectSeq(dividend_rows(records_upto(records, end_date[1])), passes)

\* the rows, cells and columns of the pivot in terms of the events that pass
\* the filter of line 991
PivotOfFilteredDividends ==
    PivotReturned =>
        /\ DOMAIN Pivot
              = {MonthOf(FilteredDividends[i].date[1]) : i \in DOMAIN FilteredDividends}
        /\ \A m \in DOMAIN Pivot :
              /\ DOMAIN Pivot[m]
                    = {FilteredDividends[i].symbol : i \in DOMAIN FilteredDividends}
              /\ \A c \in DOMAIN Pivot[m] :
                    LET hits == {i \in DOMAIN FilteredDividends :
                                   /\ MonthOf(FilteredDividends[i].date[1]) = m
                                   /\ FilteredDividends[i].symbol = c}
                    IN  Pivot[m][c] =
                          SumOver(hits,
                                  [i \in hits |->
                                     dividend_krw(FilteredDividends[i],
                                                  LocUpTo(fx_series, end_date[1][1])).value])
        /\ \A m \in DOMAIN Pivot : \A c \in DOMAIN Pivot[m] :
              \E n \in DOMAIN Pivot : Pivot[n][c] # 0

\* dividends in two different months of the window give two month rows
TwoMonthRows ==
    /\ PivotReturned
    /\ Cardinality(DOMAIN Pivot) = 2
    /\ Len(WindowDividends) = 2


---------------------------------------------------------------------------
(* generate_month_reports (update_fa.py 1259-1324) and the tables of its   *)
(* sub-reports.                                                            *)

\* extract_trades (update_fa.py 643-651)
extract_trades(recs) ==
    LET traded(r) == /\ notna(r.qty) /\ notna(r.price) /\ r.qty # Num(0)
                     /\ r.account # "sema"
    IN  SelectSeq(recs, traded)

\* DataFrame.sort_values(date) (line 664) on dated rows; rows of one day keep
\* their ledger order
RECURSIVE SortByDate(_)
SortByDate(rows) ==
    IF rows = <<>> THEN <<>>
    ELSE LET i == CHOOSE k \in DOMAIN rows :
                      \A j \in DOMAIN rows :
                          \/ rows[k].date[1] < rows[j].date[1]
                          \/ (rows[k].date[1] = rows[j].date[1] /\ k <= j)
             rest == [k \in 1..(Len(rows) - 1) |->
                         IF k < i THEN rows[k] ELSE rows[k + 1]]
         IN  <<rows[i]>> \o SortByDate(rest)

\* lines 664-682: the replay loop over the date-sorted rows of one group
RECURSIVE replay_group(_, _, _, _, _)
replay_group(rows, acct, fx, q, c) ==
    IF rows = <<>> THEN [total_qty |-> q, total_cost |-> c]
    ELSE LET qty      == rows[1].qty[1]
             price    == rows[1].price[1]
             krw_flow == convert_to_krw(acct, Num(price * qty), rows[1].date,
                                        fx, FALSE)
             st       == replay_trade(q, c, qty, krw_flow.value)
         IN  replay_group(Tail(rows), acct, fx, st.total_qty, st.total_cost)

\* compute_positions (update_fa.py 654-696): the open positions (their order
\* in the list is not modelled)
compute_positions(trades, smap, fx) ==
    LET keys == {<<trades[i].account, trades[i].symbol>> :
                    i \in {j \in DOMAIN trades : trades[j].symbol \in DOMAIN smap}}
        final(k) ==
            LET in_group(r) == r.account = k[1] /\ r.symbol = k[2]
            IN  replay_group(SortByDate(SelectSeq(trades, in_group)),
                             k[1], fx, 0, R(0))
        replayed == {[key |-> k, st |-> final(k)] : k \in keys}
    IN  { [account |-> p.key[1], symbol |-> p.key[2],
           ticker |-> smap[p.key[2]].ticker,
           quantity |-> p.st.total_qty, cost |-> p.st.total_cost] :
            p \in {x \in replayed : x.st.total_qty > 0} }

\* fetch_latest_prices (update_fa.py 699-728): the closes of the last five
\* days of the source, which lie after every day of the ledger: the last
\* observation of a ticker and the one before it.  No entry at all when the
\* download is empty; a ticker without closes among others has no price
fetch_latest_prices(tickers, src) ==
    LET quoted == {t \in tickers : DOMAIN src[t] # {}}
    IN  IF quoted = {} THEN <<>>
        ELSE [t \in tickers |->
                 IF t \notin quoted THEN [last |-> NaN, prev |-> NaN]
                 ELSE LET days   == DOMAIN src[t]
                          before == days \ {Max(days)}
                      IN  [last |-> src[t][Max(days)],
                           prev |-> IF before = {} THEN src[t][Max(days)]
                                    ELSE src[t][Max(before)]]]

\* lines 764-790 of build_holdings_df: one row per instrument of the
\* externally valued account with a latest snapshot > 0, and only when the
\* account has a snapshot at all
gongje_holdings(recs) ==
    LET is_eval(r) == r.account = "sema" /\ notna(r.eval)
        gongje_eval == SortByDate(SelectSeq(recs, is_eval))
        symbols == {gongje_eval[i].symbol : i \in DOMAIN gongje_eval}
        last_eval(c) ==
            LET of_symbol(r) == r.symbol = c
                rows == SelectSeq(gongje_eval, of_symbol)
            IN  rows[Len(rows)].eval[1]
    IN  { [account |-> "sema", symbol |-> c, valuation |-> Num(last_eval(c))] :
            c \in {x \in symbols : last_eval(x) > 0} }

\* lines 737-762 of build_holdings_df: one row per open position with a
\* price entry, valued at the latest close and the latest FX rate
position_rows(positions_now, prices, fx) ==
    { [account |-> pos.account, symbol |-> pos.symbol,
       valuation |->
           IF isna(prices[pos.ticker].last) THEN NaN
           ELSE Num(convert_to_krw(pos.account,
                        Num(pos.quantity * prices[pos.ticker].last[1]),
                        NaN, fx, TRUE).value)] :
        pos \in {x \in positions_now : x.ticker \in DOMAIN prices} }

\* lines 792-806 of build_holdings_df: the rows with a valuation > 0; raised:
\* the ValueError of lines 794 and 799
holdings_table(rows) ==
    LET df == {r \in rows : notna(r.valuation) /\ r.valuation[1] > 0}
    IN  [raised |-> rows = {} \/ df = {}, df |-> df]

\* lines 736-806 of build_holdings_df on the open positions; fetches counts
\* the requests sent to the quote source (line 737)
holdings_of(positions_now, recs, fx, src) ==
    LET tickers == {pos.ticker : pos \in positions_now}
        prices  == IF tickers = {} THEN <<>> ELSE fetch_latest_prices(tickers, src)
    IN  [table |-> holdings_table(position_rows(positions_now, prices, fx)
                                  \cup gongje_holdings(recs)),
         fetches |-> IF tickers = {} THEN 0 ELSE 1]

\* build_holdings_df (update_fa.py 731-806)
build_holdings_df(recs, fx, src) ==
    LET built == holdings_of(compute_positions(extract_trades(recs), symbol_map, fx),
                             recs, fx, src)
    IN  [raised |-> built.table.raised, df |-> built.table.df,
         fetches |-> built.fetches]

\* get_monthly_prices (update_fa.py 261-307): the months with a close of a
\* registry ticker from the first day of the start month up to the day before
\* the latest ledger date; no table (the empty set) without any close
get_monthly_prices(latest, src) ==
    {MonthOf(d) : d \in {x \in UNION {DOMAIN src[t] : t \in DOMAIN src} :
                            x >= 1 /\ x < latest}}

\* lines 1165-1171 of plot_monthly_trading_history: the rows of the month
month_records(recs, month_end) ==
    LET in_month(r) == notna(r.date) /\ MonthOf(r.date[1]) = MonthOf(month_end[1])
    IN  SelectSeq(recs, in_month)

\* DETAIL_ACCOUNTS (update_fa.py 64), the accounts of the model
DETAIL_ACCOUNTS == {"usa", "kor1", "sema"}

\* line 1308: the key of an account's detail report
detail_key(a) ==
    CASE a = "usa" -> "usa_detail" [] a = "kor1" -> "kor1_detail"
      [] OTHER -> "sema_detail"

\* lines 1293-1311: the sub-reports of the first try block, in the order of
\* the code; a ValueError ends the block.  fetches counts the requests sent
\* to the quote source
holdings_block(holdings, recs, month_end, summary) ==
    LET traded   == {r \in holdings.df : r.account # "sema"}
        details  == {a \in DETAIL_ACCOUNTS :
                        /\ \E r \in holdings.df : r.account = a
                        /\ \E i \in DOMAIN summary : summary[i].account = a}
    IN  [fetches |-> holdings.fetches,
         written |->
            IF holdings.raised \/ traded = {} THEN {}
            ELSE IF month_records(recs, month_end) = <<>> THEN {"total_holdings"}
            ELSE {"total_holdings", "trading_history"}
                 \cup {detail_key(a) : a \in details}]

\* line 1294: the try block on the holdings of the month
holdings_reports(recs, fx, month_end, src, summary) ==
    holdings_block(build_holdings_df(recs, fx, src), recs, month_end, summary)

\* fx_series.iloc[0] and fx_series.iloc[-1] (lines 238, 253) raise IndexError
\* on a series without observations: in build_account_assets when a dividend
\* of a USD account is converted (line 1349) ...
assets_index_error(recs, fx) ==
    /\ DOMAIN fx = {}
    /\ \E i \in DOMAIN dividend_rows(recs) :
          dividend_rows(recs)[i].account \in USD_ACCOUNTS

\* ... and in compute_positions when a trade of a USD account is replayed
\* (line 669)
holdings_index_error(recs, fx) ==
    /\ DOMAIN fx = {}
    /\ \E i \in DOMAIN extract_trades(recs) :
          /\ extract_trades(recs)[i].account \in USD_ACCOUNTS
          /\ extract_trades(recs)[i].symbol \in DOMAIN symbol_map

\* the requests build_account_valuation_df sends to the quote source:
\* download_adj_close (line 450) once when an instrument was traded
valuation_fetches(recs) ==
    LET not_sema(r) == r.account # "sema"
    IN  IF filter_trades(SelectSeq(recs, not_sema), symbol_map) = <<>> THEN 0 ELSE 1

\* generate_month_reports (update_fa.py 1259-1324).  error names the exception
\* that leaves the function, none of them a ValueError: RuntimeError from
\* download_adj_close (line 343), KeyError from build_account_assets (line
\* 1380), IndexError from an FX series without observations; written is the
\* set of artifacts written before it returns or raises
generate_month_reports(recs, fx, month_end, monthly_prices, src) ==
    LET prices_csv == IF \E m \in monthly_prices : m <= MonthOf(month_end[1])
                      THEN {"monthly_prices"} ELSE {}
        valuation  == build_account_valuation_df(recs, fx, month_end, src)
        summary    == build_account_assets(recs, valuation.df, fx)
        pivot_now  == load_dividend_pivot(recs, fx, month_end)
        calls      == valuation_fetches(recs)
        holdings   == holdings_reports(recs, fx, month_end, src, summary.table)
    IN  IF valuation.raised
        THEN [error |-> "RuntimeError", written |-> prices_csv, df |-> <<>>,
              fetches |-> calls]
        ELSE IF assets_index_error(recs, fx)
        THEN [error |-> "IndexError", written |-> prices_csv \cup {"assets_trend"},
              df |-> valuation.df, fetches |-> calls]
        ELSE IF summary.raised
        THEN [error |-> "KeyError", written |-> prices_csv \cup {"assets_trend"},
              df |-> valuation.df, fetches |-> calls]
        ELSE IF holdings_index_error(recs, fx)
        THEN [error |-> "IndexError",
              written |-> prices_csv \cup {"assets_trend", "account_assets"},
              df |-> valuation.df, fetches |-> calls]
        ELSE [error |-> "",
              written |-> prices_csv \cup {"assets_trend", "account_assets"}
                          \cup holdings.written
                          \cup (IF pivot_now.raised THEN {} ELSE {"monthly_dividends"}),
              df |-> valuation.df,
              fetches |-> calls + holdings.fetches]

---------------------------------------------------------------------------
(* Specification SpecVal: main (update_fa.py 1492-1538).  The ledger file  *)
(* is read, the FX series is fetched once, and every month of the run is   *)
(* reported from the ledger rows dated up to its end.                      *)

InitVal ==
    /\ records = <<>>
    /\ price_src \in QuoteSources
    /\ fx_series \in FxSeriesSet
    /\ month_idx = 0 /\ reports = <<>>
    /\ run = [pc |-> "read", full |-> FALSE, months |-> <<>>, error |-> "",
              visited |-> <<>>, loaded |-> NaN]
    /\ account_values = NaN
    /\ outputs = <<>> /\ fetch_calls = 0
    /\ IdleRun /\ IdleExt
    /\ IdleAlign /\ IdleAgg
    /\ account = "kor1" /\ total_qty = 0 /\ total_cost = R(0) /\ prev_qty = 0
    /\ prev_cost = R(0) /\ row = NaN /\ fx_obs = NaN /\ divisor = NaN
    /\ positions = <<>> /\ pc = "idle"
    /\ permuted = <<>> /\ qty_map = NaN /\ qty_map_perm = NaN /\ phase = "idle"

\* read_trading_records (line 1496): one more row of the ledger file
ReadRow ==
    /\ run.pc = "read"
    /\ Len(records) < MaxValRows
    /\ \E r \in ValRows : records' = Append(records, r)
    /\ UNCHANGED <<permuted, qty_map, qty_map_perm, phase>>
    /\ UNCHANGED <<price_src, month_idx, reports, run, account_values>>
    /\ UNCHANGED <<aggVars, outVars, runVars, extVars, alignVars, posVars>>

\* lines 1497-1504: nothing to do without a dated row
ReturnEarly ==
    /\ run.pc = "read"
    /\ (records = <<>> \/ isna(latest_date(records)))
    /\ run' = [run EXCEPT !.pc = "done"]
    /\ UNCHANGED <<price_src, month_idx, reports, account_values>>
    /\ UNCHANGED <<aggVars, outVars, runVars, extVars, alignVars, posVars, qtyVars>>

\* the requests of a run outside its month loop: build_fx_series (line 1506)
\* and get_monthly_prices (line 1514)
RunFetches == 2

\* line 1496: read_trading_records raises FileNotFoundError (line 145) when
\* the ledger file is absent
LedgerAbsent ==
    /\ run.pc = "read"
    /\ records = <<>>
    /\ config' = Num([ledger |-> "absent", registry |-> "unread"])
    /\ run' = [run EXCEPT !.pc = "raised", !.error = "FileNotFoundError"]
    /\ UNCHANGED <<build_info, latest_outputs>>
    /\ UNCHANGED <<price_src, month_idx, reports, account_values>>
    /\ UNCHANGED <<aggVars, outVars, extVars, alignVars, posVars, qtyVars>>

\* lines 1506-1514: build_fx_series sends its request (line 1506), then
\* get_monthly_prices loads the registry (line 263): load_symbol_map raises
\* FileNotFoundError when the registry file is absent (line 174) and
\* ValueError when one label is mapped to two tickers (line 190)
RegistryError ==
    /\ run.pc = "read"
    /\ records # <<>> /\ notna(latest_date(records))
    /\ \E state \in {"absent", "duplicate"} :
          /\ config' = Num([ledger |-> "present", registry |-> state])
          /\ run' = [run EXCEPT !.pc = "raised",
                                !.error = IF state = "absent"
                                          THEN "FileNotFoundError" ELSE "ValueError",
                                !.loaded = Num([records |-> records, fx |-> fx_series])]
    /\ fetch_calls' = fetch_calls + 1
    /\ UNCHANGED <<build_info, latest_outputs>>
    /\ UNCHANGED <<price_src, month_idx, reports, account_values, outputs>>
    /\ UNCHANGED <<aggVars, extVars, alignVars, posVars, qtyVars>>

\* lines 1494, 1506-1516: the mode is parsed, the FX series and the monthly
\* closes are fetched and the months are laid out
StartRun ==
    /\ run.pc = "read"
    /\ records # <<>> /\ notna(latest_date(records))
    /\ \E full \in BOOLEAN :
          run' = [pc |-> "loop", full |-> full,
                  months |-> months(latest_date(records)[1], full), error |-> "",
                  visited |-> <<>>,
                  loaded |-> Num([records |-> records, fx |-> fx_series])]
    /\ month_idx' = 1
    /\ fetch_calls' = fetch_calls + RunFetches
    /\ config' = Num([ledger |-> "present", registry |-> "loaded"])
    /\ latest_outputs' = Num({})
    /\ UNCHANGED <<price_src, reports, account_values, outputs, build_info>>
    /\ UNCHANGED <<aggVars, alignVars, posVars, qtyVars, extVars>>

ThisMonth == run.months[month_idx]
InLoop == run.pc = "loop" /\ month_idx <= Len(run.months)

\* lines 1519-1521: a month without rows is skipped
SkipMonth ==
    /\ InLoop
    /\ records_upto(records, MonthEnd(ThisMonth)) = <<>>
    /\ month_idx' = month_idx + 1
    /\ UNCHANGED <<price_src, reports, run, account_values>>
    /\ UNCHANGED <<aggVars, outVars, runVars, extVars, alignVars, posVars, qtyVars>>

\* line 450 as called for month m: the valuation table of the month
MonthValuationOf(m) ==
    build_account_valuation_df(records_upto(records, MonthEnd(m)),
                               LocUpTo(fx_series, MonthEnd(m)[1]),
                               MonthEnd(m), price_src)

\* lines 1519-1534 for month m: generate_month_reports on the rows and the FX
\* observations dated up to the month end
MonthReportsOf(m) ==
    generate_month_reports(records_upto(records, MonthEnd(m)),
                           LocUpTo(fx_series, MonthEnd(m)[1]),
                           MonthEnd(m),
                           get_monthly_prices(latest_date(records)[1], price_src),
                           price_src)

MonthReports == MonthReportsOf(ThisMonth)

\* Bug variant: the outputs dictionary is carried from one month to the next
Written_carried(m, keys) ==
    [x \in DOMAIN outputs \cup {m} |->
        IF x = m THEN keys \cup UNION {outputs[y] : y \in DOMAIN outputs}
        ELSE outputs[x]]

\* the artifacts of the month are added to those on disk
Written(m, keys) ==
    [x \in DOMAIN outputs \cup {m} |-> IF x = m THEN keys ELSE outputs[x]]

\* lines 1522-1536: the reports of the month are generated
ProcessMonth ==
    /\ InLoop
    /\ records_upto(records, MonthEnd(ThisMonth)) # <<>>
    /\ \E result \in {MonthReports} :
          /\ result.error = ""
          /\ reports' = [m \in DOMAIN reports \cup {ThisMonth} |->
                            IF m = ThisMonth THEN result.df ELSE reports[m]]
          /\ outputs' = Written(ThisMonth, result.written)
          /\ fetch_calls' = fetch_calls + result.fetches
          /\ latest_outputs' = IF month_idx = Len(run.months)
                                THEN Num({<<ThisMonth, k>> : k \in result.written})
                                ELSE latest_outputs
    /\ run' = [run EXCEPT !.visited = Append(@, ThisMonth)]
    /\ month_idx' = month_idx + 1
    /\ UNCHANGED <<price_src, account_values, config, build_info>>
    /\ UNCHANGED <<aggVars, alignVars, posVars, qtyVars, extVars>>

\* an exception other than ValueError leaves generate_month_reports (which
\* catches ValueError only, lines 1312 and 1321) and main, which catches
\* nothing: the run ends
AbortRun ==
    /\ InLoop
    /\ records_upto(records, MonthEnd(ThisMonth)) # <<>>
    /\ \E result \in {MonthReports} :
          /\ result.error # ""
          /\ run' = [run EXCEPT !.pc = "raised", !.error = result.error,
                                !.visited = Append(@, ThisMonth)]
          /\ outputs' = Written(ThisMonth, result.written)
          /\ fetch_calls' = fetch_calls + result.fetches
    /\ UNCHANGED <<price_src, month_idx, reports, account_values>>
    /\ UNCHANGED <<aggVars, alignVars, posVars, qtyVars, runVars, extVars>>

\* lines 1538-1560: the loop is over; write_build_info(latest_period) and the
\* 'latest' copies of the artifacts in latest_outputs
FinishRun ==
    /\ run.pc = "loop" /\ month_idx > Len(run.months)
    /\ run' = [run EXCEPT !.pc = "done"]
    /\ build_info' = Num(run.months[Len(run.months)])
    /\ UNCHANGED <<price_src, month_idx, reports, account_values>>
    /\ UNCHANGED <<config, latest_outputs>>
    /\ UNCHANGED <<aggVars, outVars, extVars, alignVars, posVars, qtyVars>>

NextVal == ReadRow \/ ReturnEarly \/ LedgerAbsent \/ RegistryError \/ StartRun
           \/ SkipMonth \/ ProcessMonth \/ AbortRun \/ FinishRun
SpecVal == InitVal /\ [][NextVal]_vars

\* the value of an account at a date in a valuation table, 0 without a column
ValueAt(df, a, d) == IF a \in DOMAIN df /\ d \in DOMAIN df[a] THEN df[a][d] ELSE 0

AllAccounts == {"usa", "kor1", "sema"}

\* the table of the last month of a finished run is computed from the full ledger
FullTable == reports[Max(DOMAIN reports)]

\* C1: for every month M and every account (the externally valued account
\* 'sema' included) the valuation computed from the ledger truncated at M's end
\* equals the entry at M's end of the series computed from the full ledger.
C1_NoLookAhead ==
    (run.pc = "done" /\ reports # <<>>) =>
        \A m \in DOMAIN reports : \A a \in AllAccounts :
            ValueAt(reports[m], a, m * MonthLen)
                = ValueAt(FullTable, a, m * MonthLen)

\* the same for the accounts valued from quantities and prices only
NoLookAheadTraded ==
    (run.pc = "done" /\ reports # <<>>) =>
        \A m \in DOMAIN reports : \A a \in AllAccounts \ {"sema"} :
            ValueAt(reports[m], a, m * MonthLen)
                = ValueAt(FullTable, a, m * MonthLen)

NoLookAheadTradedWitness ==
    /\ run.pc = "done" /\ Cardinality(DOMAIN reports) >= 2
    /\ \E m \in DOMAIN reports : \E a \in AllAccounts \ {"sema"} :
          /\ m # Max(DOMAIN reports)
          /\ ValueAt(reports[m], a, m * MonthLen) > 0
          /\ ValueAt(FullTable, a, Max(DOMAIN reports) * MonthLen)
                # ValueAt(reports[m], a, m * MonthLen)


\* the run is over, by the end of the loop or by an exception
RunOver == run.pc \in {"done", "raised"} /\ run.months # <<>>

HasRows(m) == records_upto(records, MonthEnd(m)) # <<>>

\* C18: in full-backfill mode a failed or empty price fetch in one month
\* aborts only that month: every later month of the loop is still processed
\* and the reports it can compute are produced.
C18_FailedFetchAbortsOnlyItsMonth ==
    (RunOver /\ run.full) =>
        \A i, j \in DOMAIN run.months :
            (/\ i < j
             /\ HasRows(run.months[i])
             /\ MonthValuationOf(run.months[i]).raised
             /\ HasRows(run.months[j])
             /\ MonthReportsOf(run.months[j]).error = "")
            => /\ run.months[j] \in DOMAIN outputs
               /\ outputs[run.months[j]] = MonthReportsOf(run.months[j]).written

\* C19: the number of requests sent to the quote source during a run is a
\* constant, whatever the number of months processed: prices and FX are
\* fetched before the month loop and no month sends a request.
C19_FetchCountIndependentOfMonths ==
    (run.pc \in {"loop", "done", "raised"} /\ run.months # <<>>)
        => fetch_calls = RunFetches

\* the rows and FX observations generate_month_reports is given for month m
RowsOf(m) == records_upto(records, MonthEnd(m))
FxOf(m) == LocUpTo(fx_series, MonthEnd(m)[1])

\* the sub-reports of month m whose own inputs are valid: the valuation table
\* (assets trend), an account with a nonzero latest valuation (account
\* summary), a valued position of a traded account (total holdings), a ledger
\* row dated in the month (trading history), a holding and a summary row of
\* the account (detail), a dividend passing the window filter (monthly
\* dividends)
ValidReports(m) ==
    LET valuation == MonthValuationOf(m)
        latest    == latest_values(valuation.df)
        nonzero   == \E a \in DOMAIN latest : latest[a] # 0
        fx_ok     == /\ ~assets_index_error(RowsOf(m), FxOf(m))
                     /\ ~holdings_index_error(RowsOf(m), FxOf(m))
        holdings  == build_holdings_df(RowsOf(m), FxOf(m), price_src)
        summary   == build_account_assets(RowsOf(m), valuation.df, FxOf(m))
    IN  {"assets_trend"}
        \cup (IF nonzero /\ ~assets_index_error(RowsOf(m), FxOf(m))
              THEN {"account_assets"} ELSE {})
        \cup (IF fx_ok /\ ~holdings.raised
                    /\ \E r \in holdings.df : r.account # "sema"
              THEN {"total_holdings"} ELSE {})
        \cup (IF month_records(RowsOf(m), MonthEnd(m)) # <<>>
              THEN {"trading_history"} ELSE {})
        \cup (IF fx_ok /\ nonzero /\ ~holdings.raised
              THEN {detail_key(a) : a \in
                      {x \in DETAIL_ACCOUNTS :
                          /\ \E r \in holdings.df : r.account = x
                          /\ \E k \in DOMAIN summary.table :
                                summary.table[k].account = x}}
              ELSE {})
        \cup (IF ~assets_index_error(RowsOf(m), FxOf(m))
                 /\ ~load_dividend_pivot(RowsOf(m), FxOf(m), MonthEnd(m)).raised
              THEN {"monthly_dividends"} ELSE {})

\* C20: when a sub-report of a period has nothing to compute only that
\* sub-report is omitted: every sibling sub-report of the period whose own
\* inputs are valid is produced.
C20_SubReportIsolation ==
    \A m \in DOMAIN outputs :
        ~MonthValuationOf(m).raised => ValidReports(m) \subseteq outputs[m]

\* a sub-report is produced only when its own inputs are valid
ProducedReportsAreValid ==
    \A m \in DOMAIN outputs :
        ~MonthValuationOf(m).raised =>
            outputs[m] \ {"monthly_prices"} \subseteq ValidReports(m)

\* a month whose first try block and dividend pivot both have inputs gets
\* every sub-report
AllReportsProduced ==
    \E m \in DOMAIN outputs :
        {"assets_trend", "account_assets", "total_holdings", "trading_history",
         "kor1_detail", "monthly_dividends", "monthly_prices"} \subseteq outputs[m]

---------------------------------------------------------------------------
(* Specification SpecCalendar: build_evaluation_index on bounded start and *)
(* end dates.                                                              *)

MaxCalDate == 6

CalDates == 0..MaxCalDate

InitCalendar ==
    /\ \E s \in CalDates, e \in CalDates, tod \in {0, 1} :
          calendar = [start |-> s, end |-> <<e, tod>>, index |-> NaN]
    /\ raw = NaN /\ holdings_df = NaN /\ files = NaN /\ canvas = NaN
    /\ IdleAlign /\ IdlePos /\ IdleQty /\ IdleVal /\ IdleAgg /\ IdleOut /\ IdleRun

BuildEvaluationIndex ==
    /\ isna(calendar.index)
    /\ calendar' = [calendar EXCEPT
                       !.index = Num(build_evaluation_index(calendar.start,
                                                            calendar.end))]
    /\ UNCHANGED <<raw, holdings_df, files, canvas>>
    /\ UNCHANGED <<alignVars, posVars, qtyVars, valVars, aggVars, outVars, runVars>>

NextCalendar == BuildEvaluationIndex
SpecCalendar == InitCalendar /\ [][NextCalendar]_vars

\* a day is a month-end when the next day lies in another month
IsMonthEnd(d) == MonthOf(d) # MonthOf(d + 1)

CalendarBuilt == notna(calendar.index)
EvalIndex == calendar.index[1]
AsOfDay == calendar.end[1]

\* C29: for every start and end date the calendar is non-empty and strictly
\* increasing (so without duplicates), its last element is the as-of date
\* normalized to midnight and its other elements are exactly the month-ends in
\* [start, end]; an as-of date that is a month-end appears once, and an as-of
\* date before the first month-end after start gives the single date end.
C29_EvaluationCalendar ==
    CalendarBuilt =>
        /\ EvalIndex # <<>>
        /\ \A i, j \in DOMAIN EvalIndex : i < j => EvalIndex[i] < EvalIndex[j]
        /\ EvalIndex[Len(EvalIndex)] = AsOfDay
        /\ Range(EvalIndex) \ {AsOfDay}
              = {d \in calendar.start..AsOfDay : IsMonthEnd(d)} \ {AsOfDay}
        /\ (~\E d \in calendar.start..AsOfDay : IsMonthEnd(d))
              => EvalIndex = <<AsOfDay>>

\* an as-of date with a time of day that is itself a month-end, after an
\* earlier month-end: it appears once, as the last element
C29_Witness ==
    /\ CalendarBuilt
    /\ calendar.end[2] = 1
    /\ IsMonthEnd(AsOfDay)
    /\ Len(EvalIndex) >= 2
    /\ Cardinality({i \in DOMAIN EvalIndex : EvalIndex[i] = AsOfDay}) = 1

\* an as-of date before the first month-end after start: the single date
SingleDateCalendar ==
    /\ CalendarBuilt
    /\ AsOfDay >= calendar.start
    /\ ~IsMonthEnd(AsOfDay)
    /\ EvalIndex = <<AsOfDay>>

---------------------------------------------------------------------------
(* Specification SpecArtifacts: the chart files of one period.  Every      *)
(* plot_* function ends with _save_canvas (update_fa.py 557-574), which    *)
(* writes the canvas to the artifact path, and _crop_top_inches (577-590), *)
(* which reads that file back and saves the cropped image over it.         *)

\* the charts of generate_month_reports, in the order they are plotted
ARTIFACTS == <<"assets_trend", "account_assets", "total_holdings",
               "trading_history", "monthly_dividends">>

\* what an artifact path holds: nothing, the artifact published by an earlier
\* run, a file opened for writing and not written to its end, the whole
\* canvas before cropping, the cropped chart
FileStates == {"absent", "published", "partial", "uncropped", "complete"}

ThisArtifact == ARTIFACTS[canvas.idx]

InitArtifacts ==
    /\ files \in [Range(ARTIFACTS) -> {"absent", "published"}]
    /\ canvas = [idx |-> 1, pc |-> "plot", before |-> files]
    /\ calendar = NaN /\ raw = NaN /\ holdings_df = NaN
    /\ IdleAlign /\ IdlePos /\ IdleQty /\ IdleVal /\ IdleAgg /\ IdleOut /\ IdleRun

Plotting == canvas.idx <= Len(ARTIFACTS)

\* line 564: fig.savefig opens output_path itself for writing
OpenCanvas ==
    /\ Plotting /\ canvas.pc = "plot"
    /\ files' = [files EXCEPT ![ThisArtifact] = "partial"]
    /\ canvas' = [canvas EXCEPT !.pc = "saving"]
    /\ UNCHANGED <<calendar, raw, holdings_df>>
    /\ UNCHANGED <<alignVars, posVars, qtyVars, valVars, aggVars, outVars, runVars>>

\* lines 564-574: the canvas is written to its end
WriteCanvas ==
    /\ Plotting /\ canvas.pc = "saving"
    /\ files' = [files EXCEPT ![ThisArtifact] = "uncropped"]
    /\ canvas' = [canvas EXCEPT !.pc = "saved"]
    /\ UNCHANGED <<calendar, raw, holdings_df>>
    /\ UNCHANGED <<alignVars, posVars, qtyVars, valVars, aggVars, outVars, runVars>>

\* an I/O error while the canvas is written: the exception is no ValueError
\* and leaves generate_month_reports and main
SaveFails ==
    /\ Plotting /\ canvas.pc = "saving"
    /\ canvas' = [canvas EXCEPT !.pc = "raised"]
    /\ UNCHANGED <<files, calendar, raw, holdings_df>>
    /\ UNCHANGED <<alignVars, posVars, qtyVars, valVars, aggVars, outVars, runVars>>

\* line 588: cropped.save opens image_path, the artifact itself, for writing
OpenCropped ==
    /\ Plotting /\ canvas.pc = "saved"
    /\ files' = [files EXCEPT ![ThisArtifact] = "partial"]
    /\ canvas' = [canvas EXCEPT !.pc = "cropping"]
    /\ UNCHANGED <<calendar, raw, holdings_df>>
    /\ UNCHANGED <<alignVars, posVars, qtyVars, valVars, aggVars, outVars, runVars>>

\* line 588: the cropped chart is written to its end; the next chart follows
WriteCropped ==
    /\ Plotting /\ canvas.pc = "cropping"
    /\ files' = [files EXCEPT ![ThisArtifact] = "complete"]
    /\ canvas' = [canvas EXCEPT !.idx = @ + 1, !.pc = "plot"]
    /\ UNCHANGED <<calendar, raw, holdings_df>>
    /\ UNCHANGED <<alignVars, posVars, qtyVars, valVars, aggVars, outVars, runVars>>

\* lines 589-590: an exception while the file is read back (line 582) or
\* while the cropped chart is written (line 588) is caught and reported as a
\* warning; the file stays as it is and the next chart follows
CropFails ==
    /\ Plotting /\ canvas.pc \in {"saved", "cropping"}
    /\ canvas' = [canvas EXCEPT !.idx = @ + 1, !.pc = "plot"]
    /\ UNCHANGED <<files, calendar, raw, holdings_df>>
    /\ UNCHANGED <<alignVars, posVars, qtyVars, valVars, aggVars, outVars, runVars>>

\* the last chart of the period is done
FinishArtifacts ==
    /\ ~Plotting /\ canvas.pc = "plot"
    /\ canvas' = [canvas EXCEPT !.pc = "done"]
    /\ UNCHANGED <<files, calendar, raw, holdings_df>>
    /\ UNCHANGED <<alignVars, posVars, qtyVars, valVars, aggVars, outVars, runVars>>

NextArtifacts == OpenCanvas \/ WriteCanvas \/ SaveFails \/ OpenCropped
                 \/ WriteCropped \/ CropFails \/ FinishArtifacts
SpecArtifacts == InitArtifacts /\ [][NextArtifacts]_vars

\* C21: at every point of a run, a failing step included, each artifact path
\* holds either the complete newly produced artifact or exactly what it held
\* before the run.
C21_WriteAfterSuccessOnly ==
    \A a \in Range(ARTIFACTS) : files[a] \in {canvas.before[a], "complete"}

\* the charts that were not plotted yet hold what they held before the run
UnplottedArtifactsUntouched ==
    \A i \in DOMAIN ARTIFACTS :
        i > canvas.idx => files[ARTIFACTS[i]] = canvas.before[ARTIFACTS[i]]

\* a run without any failure leaves every chart complete
CleanRunComplete ==
    /\ canvas.pc = "done"
    /\ \A a \in Range(ARTIFACTS) : files[a] = "complete"

\* a published chart replaced by a file that was not written to its end
PublishedArtifactCorrupted ==
    /\ canvas.pc = "raised"
    /\ canvas.before[ThisArtifact] = "published"
    /\ files[ThisArtifact] = "partial"

---------------------------------------------------------------------------
(* Specification SpecLoad: read_trading_records (update_fa.py 142-161) on  *)
(* the text cells of the ledger file, followed by the sums of              *)
(* build_account_assets (1338-1354) over the rows main hands to the        *)
(* latest month (1501-1519).  A text cell is a sequence of characters; a   *)
(* date is written month, separator, day of the month.                     *)

DIGITS == <<"0", "1", "2", "3", "4", "5", "6", "7", "8", "9">>

IsDigit(c) == c \in Range(DIGITS)
DigitValue(c) == (CHOOSE i \in DOMAIN DIGITS : DIGITS[i] = c) - 1

\* Series.str.replace(old, new, regex=False) on one cell, one character each
str_replace(text, old, new) ==
    [i \in DOMAIN text |-> IF text[i] = old THEN new ELSE text[i]]

\* Series.str.replace(",", "", regex=False) on one cell
strip_commas(text) ==
    LET kept(c) == c # ","
    IN  SelectSeq(text, kept)

RECURSIVE Decimal(_)
Decimal(text) ==
    IF text = <<>> THEN 0
    ELSE 10 * Decimal(SubSeq(text, 1, Len(text) - 1)) + DigitValue(text[Len(text)])

\* pd.to_numeric(errors="coerce"): the number, NaN for an empty cell and for
\* a text that is no number
to_numeric(text) ==
    IF text # <<>> /\ \A i \in DOMAIN text : IsDigit(text[i])
    THEN Num(Decimal(text)) ELSE NaN

\* _clean_numeric (update_fa.py 136-139) on one cell
_clean_numeric(text) == to_numeric(strip_commas(text))

\* pd.to_datetime(errors="coerce") on one cell: the day number of
\* month-day, NaT for any other text
to_datetime(text) ==
    IF /\ Len(text) = 3
       /\ IsDigit(text[1]) /\ DigitValue(text[1]) >= 1
       /\ text[2] = "-"
       /\ IsDigit(text[3]) /\ DigitValue(text[3]) \in 1..MonthLen
    THEN Num((DigitValue(text[1]) - 1) * MonthLen + DigitValue(text[3]))
    ELSE NaN

\* lines 149-154: the date column
parse_date(text) == to_datetime(str_replace(str_replace(text, ".", "-"), "/", "-"))

\* read_trading_records (update_fa.py 147-161) on one row of the file
read_row(r) ==
    Row(r.account, r.symbol, parse_date(r.date), _clean_numeric(r.price),
        _clean_numeric(r.qty), _clean_numeric(r.invest), NaN,
        _clean_numeric(r.dividend))

\* read_trading_records (update_fa.py 142-161): every row of the file is a
\* row of the frame
read_trading_records(rows) == [i \in DOMAIN rows |-> read_row(rows[i])]

MaxRawRows == 2

DateTexts    == {<<"1", ".", "1">>, <<"1", "-", "2">>, <<"2", "/", "1">>, <<"n", "a">>}
InvestTexts  == {<<>>, <<"1">>, <<"x">>}
DividendTexts == {<<>>, <<"2">>, <<"1", ",", "0">>, <<"2", "?">>}

RawRows ==
    [account : {"kor1"}, symbol : {"RT"}, date : DateTexts, price : {<<>>},
     qty : {<<>>}, invest : InvestTexts, dividend : DividendTexts]

RawLedgers == UNION {[1..n -> RawRows] : n \in 0..MaxRawRows}

\* the FX series of the run; the accounts of RawRows are home accounts
LoadFx == [d \in {1} |-> 1]

InitLoad ==
    /\ raw \in {[rows |-> l, pc |-> "file", loaded |-> <<>>,
                 invested |-> <<>>, dividends |-> <<>>] : l \in RawLedgers}
    /\ calendar = NaN /\ holdings_df = NaN /\ files = NaN /\ canvas = NaN
    /\ IdleAlign /\ IdlePos /\ IdleQty /\ IdleVal /\ IdleAgg /\ IdleOut /\ IdleRun

\* main line 1496
ReadTradingRecords ==
    /\ raw.pc = "file"
    /\ raw' = [raw EXCEPT !.loaded = read_trading_records(raw.rows), !.pc = "read"]
    /\ UNCHANGED <<calendar, holdings_df, files, canvas>>
    /\ UNCHANGED <<alignVars, posVars, qtyVars, valVars, aggVars, outVars, runVars>>

HasValidDate(recs) == \E i \in DOMAIN recs : notna(recs[i].date)

\* main lines 1497-1504: an empty ledger, or one without any valid date
NoValidDate ==
    /\ raw.pc = "read"
    /\ ~HasValidDate(raw.loaded)
    /\ raw' = [raw EXCEPT !.pc = "returned"]
    /\ UNCHANGED <<calendar, holdings_df, files, canvas>>
    /\ UNCHANGED <<alignVars, posVars, qtyVars, valVars, aggVars, outVars, runVars>>

\* main lines 1501-1519 for the latest month, then build_account_assets
\* lines 1340-1354 on its rows
latest_records(recs) ==
    LET last_date == Max({recs[i].date[1] :
                              i \in {j \in DOMAIN recs : notna(recs[j].date)}})
    IN  records_upto(recs, MonthEnd(MonthOf(last_date)))

SumLatestMonth ==
    /\ raw.pc = "read"
    /\ HasValidDate(raw.loaded)
    /\ raw' = [raw EXCEPT
                 !.invested  = investment_series(latest_records(raw.loaded)),
                 !.dividends = dividends_by_account(latest_records(raw.loaded), LoadFx),
                 !.pc = "summed"]
    /\ UNCHANGED <<calendar, holdings_df, files, canvas>>
    /\ UNCHANGED <<alignVars, posVars, qtyVars, valVars, aggVars, outVars, runVars>>

NextLoad == ReadTradingRecords \/ NoValidDate \/ SumLatestMonth
SpecLoad == InitLoad /\ [][NextLoad]_vars

\* a cell that is neither empty nor readable
MalformedDate(text)   == isna(parse_date(text))
MalformedNumber(text) == text # <<>> /\ isna(_clean_numeric(text))
MalformedRow(r) ==
    \/ MalformedDate(r.date)
    \/ \E t \in {r.price, r.qty, r.invest, r.dividend} : MalformedNumber(t)

\* the rows of the file without a malformed cell, read
well_formed_records(rows) ==
    LET sound(r) == ~MalformedRow(r)
    IN  read_trading_records(SelectSeq(rows, sound))

\* C22: a malformed row never aborts the load; the row is skipped, none of its
\* fields contributes to an invested amount or a dividend, and every other
\* row is loaded unchanged.
C22_MalformedRowSkipped ==
    raw.pc = "summed" =>
        /\ raw.invested = investment_series(well_formed_records(raw.rows))
        /\ raw.dividends = dividends_by_account(well_formed_records(raw.rows), LoadFx)

\* the load keeps every row of the file, the malformed cell read as NaN
LoadKeepsEveryRow ==
    raw.pc # "file" =>
        /\ Len(raw.loaded) = Len(raw.rows)
        /\ \A i \in DOMAIN raw.rows :
             /\ MalformedDate(raw.rows[i].date) <=> isna(raw.loaded[i].date)
             /\ MalformedNumber(raw.rows[i].invest) => isna(raw.loaded[i].invest)
             /\ MalformedNumber(raw.rows[i].dividend) => isna(raw.loaded[i].dividend)

\* a row with a malformed date contributes to no sum of the month
MalformedDateRowDropped ==
    raw.pc = "summed" =>
        LET dated(r) == ~MalformedDate(r.date)
            kept     == read_trading_records(SelectSeq(raw.rows, dated))
        IN  /\ raw.invested = investment_series(kept)
            /\ raw.dividends = dividends_by_account(kept, LoadFx)

\* a row with an unreadable dividend whose contribution is in the invested sum
MalformedRowContributes ==
    /\ raw.pc = "summed"
    /\ Len(raw.rows) = 1
    /\ MalformedNumber(raw.rows[1].dividend)
    /\ "kor1" \in DOMAIN raw.invested
    /\ raw.invested["kor1"] = 1

---------------------------------------------------------------------------
(* Specification SpecSnapshots: an externally valued account with two      *)
(* instruments.  generate_month_reports hands the same rows to             *)
(* build_account_valuation_df (line 1280, the account series of            *)
(* build_gongje_account_series) and to build_holdings_df (line 1294, the   *)
(* per-instrument rows of lines 764-791).                                  *)

MaxSnapRows == 2
MaxSnapMonths == 2

SnapMonths == 1..MaxSnapMonths
SnapDates  == 1..(MaxSnapMonths * MonthLen)

\* valuation snapshots of the instruments FD and FE
SnapshotRows ==
    { Row("sema", c, Num(d), NaN, NaN, NaN, Num(v), NaN) :
        c \in {"FD", "FE"}, d \in SnapDates, v \in {3, 5} }

SnapshotLedgers == UNION {[1..n -> SnapshotRows] : n \in 0..MaxSnapRows}

InitSnapshots ==
    /\ holdings_df \in
         {[recs |-> records_upto(l, MonthEnd(m)), month_end |-> MonthEnd(m),
           pc |-> "rows", series |-> <<>>, rows |-> {}] :
             l \in SnapshotLedgers, m \in SnapMonths}
    /\ calendar = NaN /\ raw = NaN /\ files = NaN /\ canvas = NaN
    /\ IdleAlign /\ IdlePos /\ IdleQty /\ IdleVal /\ IdleAgg /\ IdleOut /\ IdleRun

\* build_account_valuation_df lines 441 and 461: the account series on the
\* evaluation calendar of the month
SnapshotSeries ==
    /\ holdings_df.pc = "rows"
    /\ holdings_df' =
         [holdings_df EXCEPT
            !.series = build_gongje_account_series(
                           holdings_df.recs,
                           Range(build_evaluation_index(START_MONTH,
                                                        holdings_df.month_end))),
            !.pc = "series"]
    /\ UNCHANGED <<calendar, raw, files, canvas>>
    /\ UNCHANGED <<alignVars, posVars, qtyVars, valVars, aggVars, outVars, runVars>>

\* build_holdings_df lines 764-791: the rows of the account's instruments
SnapshotHoldings ==
    /\ holdings_df.pc = "series"
    /\ holdings_df' = [holdings_df EXCEPT !.rows = gongje_holdings(holdings_df.recs),
                                          !.pc = "holdings"]
    /\ UNCHANGED <<calendar, raw, files, canvas>>
    /\ UNCHANGED <<alignVars, posVars, qtyVars, valVars, aggVars, outVars, runVars>>

NextSnapshots == SnapshotSeries \/ SnapshotHoldings
SpecSnapshots == InitSnapshots /\ [][NextSnapshots]_vars

\* the snapshot of instrument c most recently dated <= d, 0 without one
LatestSnapshot(recs, c, d) ==
    LET upto == {i \in DOMAIN recs :
                   recs[i].symbol = c /\ notna(recs[i].eval) /\ recs[i].date[1] <= d}
    IN  IF upto = {} THEN 0
        ELSE recs[CHOOSE i \in upto :
                     \A j \in upto : recs[j].date[1] <= recs[i].date[1]].eval[1]

RECURSIVE SumRowValuations(_)
SumRowValuations(rows) ==
    IF rows = {} THEN 0
    ELSE LET r == CHOOSE x \in rows : TRUE
         IN  r.valuation[1] + SumRowValuations(rows \ {r})

\* each instrument has at most one snapshot a day
OneSnapshotADay(recs) ==
    \A i, j \in DOMAIN recs :
        (i # j /\ recs[i].symbol = recs[j].symbol) => recs[i].date # recs[j].date

\* C30: for an externally valued account holding several instruments with
\* snapshots on different dates, the account value at an evaluation date d is
\* the sum over the instruments of each one's most recent snapshot <= d, and
\* so agrees with the instruments' rows of the holdings table.
C30_AccountIsSumOfInstrumentSnapshots ==
    (holdings_df.pc = "holdings" /\ OneSnapshotADay(holdings_df.recs)) =>
        /\ \A d \in DOMAIN holdings_df.series :
              holdings_df.series[d]
                = LatestSnapshot(holdings_df.recs, "FD", d)
                  + LatestSnapshot(holdings_df.recs, "FE", d)
        /\ holdings_df.series[holdings_df.month_end[1]]
             = SumRowValuations(holdings_df.rows)

\* with a single instrument the account series is that instrument's row
SingleInstrumentAgrees ==
    (/\ holdings_df.pc = "holdings"
     /\ OneSnapshotADay(holdings_df.recs)
     /\ \A i \in DOMAIN holdings_df.recs : holdings_df.recs[i].symbol = "FD") =>
        /\ \A d \in DOMAIN holdings_df.series :
              holdings_df.series[d] = LatestSnapshot(holdings_df.recs, "FD", d)
        /\ holdings_df.series[holdings_df.month_end[1]]
             = SumRowValuations(holdings_df.rows)

\* the per-instrument rows carry each instrument's latest snapshot
InstrumentRowsAreLatestSnapshots ==
    (holdings_df.pc = "holdings" /\ OneSnapshotADay(holdings_df.recs)) =>
        holdings_df.rows =
            { [account |-> "sema", symbol |-> c,
               valuation |-> Num(LatestSnapshot(holdings_df.recs, c,
                                                holdings_df.month_end[1]))] :
                c \in {holdings_df.recs[i].symbol : i \in DOMAIN holdings_df.recs} }

\* two instruments valued on different days: the account series shows only
\* the instrument valued last
LaterSnapshotHidesOtherInstrument ==
    /\ holdings_df.pc = "holdings"
    /\ Len(holdings_df.recs) = 2
    /\ holdings_df.recs[1].symbol = "FD" /\ holdings_df.recs[1].date = Num(1)
    /\ holdings_df.recs[2].symbol = "FE" /\ holdings_df.recs[2].date = Num(2)
    /\ SumRowValuations(holdings_df.rows) = 8
    /\ holdings_df.series[holdings_df.month_end[1]] = 5

---------------------------------------------------------------------------
(* Specification SpecHoldings: the tables of one as-of month built from    *)
(* the same rows (generate_month_reports 1280-1298): the open positions of *)
(* compute_positions, the quantity series of build_quantity_series, the    *)
(* account valuation table and the holdings table.                         *)

MaxHoldRows   == 2
MaxHoldDate   == 3
MaxHoldMonths == 2

\* every account trades every instrument: a foreign-quoted instrument in the
\* home account and a home-quoted one in the foreign account included
HoldPairs == {<<"usa", "SPYM">>, <<"kor1", "RT">>, <<"kor1", "SPYM">>, <<"usa", "RT">>}
HoldRows  == { TradeRow(g[1], g[2], d, q, 1) :
                 g \in HoldPairs, d \in 1..MaxHoldDate, q \in {-1, 1} }
HoldLedgers == UNION {[1..n -> HoldRows] : n \in 0..MaxHoldRows}

\* closes on the last day of the first month and on the day after it
HoldQuoteDates == {MonthLen, MonthLen + 1}
HoldSources ==
    { [t \in {"SPYM", "R.KS"} |-> q] :
        q \in [HoldQuoteDates -> {Num(v) : v \in 1..MaxQuote}] }

\* FX series with an observation on the first day
HoldFx == { (1 :> 1), (1 :> 2), (1 :> 1) @@ ((MonthLen + 1) :> 2) }

InitHoldings ==
    /\ holdings_df \in
         {[recs |-> records_upto(l, MonthEnd(m)), fx |-> LocUpTo(f, MonthEnd(m)[1]),
           src |-> s, month_end |-> MonthEnd(m), pc |-> "rows",
           positions |-> {}, qty |-> <<>>, account_df |-> <<>>, table |-> <<>>] :
             l \in HoldLedgers, f \in HoldFx, s \in HoldSources,
             m \in 1..MaxHoldMonths}
    /\ calendar = NaN /\ raw = NaN /\ files = NaN /\ canvas = NaN
    /\ IdleAlign /\ IdlePos /\ IdleQty /\ IdleVal /\ IdleAgg /\ IdleOut /\ IdleRun

\* the evaluation calendar of the month and its last date, the as-of date
HoldCalendar == Range(build_evaluation_index(START_MONTH, holdings_df.month_end))
HoldAsOf     == holdings_df.month_end[1]

\* build_holdings_df line 735
ComputePositions ==
    /\ holdings_df.pc = "rows"
    /\ holdings_df' =
         [holdings_df EXCEPT
            !.positions = compute_positions(extract_trades(holdings_df.recs),
                                            symbol_map, holdings_df.fx),
            !.pc = "positions"]
    /\ UNCHANGED <<calendar, raw, files, canvas>>
    /\ UNCHANGED <<alignVars, posVars, qtyVars, valVars, aggVars, outVars, runVars>>

\* build_account_valuation_df line 444
QuantitySeriesOfMonth ==
    /\ holdings_df.pc = "positions"
    /\ holdings_df' =
         [holdings_df EXCEPT
            !.qty = build_quantity_series(holdings_df.recs, symbol_map, HoldCalendar),
            !.pc = "quantities"]
    /\ UNCHANGED <<calendar, raw, files, canvas>>
    /\ UNCHANGED <<alignVars, posVars, qtyVars, valVars, aggVars, outVars, runVars>>

\* generate_month_reports line 1280
BuildAccountValuation ==
    /\ holdings_df.pc = "quantities"
    /\ holdings_df' =
         [holdings_df EXCEPT
            !.account_df = build_account_valuation_df(holdings_df.recs, holdings_df.fx,
                               holdings_df.month_end, holdings_df.src).df,
            !.pc = "valued"]
    /\ UNCHANGED <<calendar, raw, files, canvas>>
    /\ UNCHANGED <<alignVars, posVars, qtyVars, valVars, aggVars, outVars, runVars>>

\* generate_month_reports line 1294
BuildHoldings ==
    /\ holdings_df.pc = "valued"
    /\ holdings_df' =
         [holdings_df EXCEPT
            !.table = holdings_of(holdings_df.positions, holdings_df.recs,
                                  holdings_df.fx, holdings_df.src).table,
            !.pc = "holdings"]
    /\ UNCHANGED <<calendar, raw, files, canvas>>
    /\ UNCHANGED <<alignVars, posVars, qtyVars, valVars, aggVars, outVars, runVars>>

NextHoldings == ComputePositions \/ QuantitySeriesOfMonth \/ BuildAccountValuation
                \/ BuildHoldings
SpecHoldings == InitHoldings /\ [][NextHoldings]_vars

\* the close of a ticker most recently dated <= d, NaN without one
CloseOnOrBefore(src, ticker, d) ==
    LET days == {x \in DOMAIN src[ticker] : x <= d}
    IN  IF days = {} THEN NaN ELSE src[ticker][Max(days)]

\* the holdings rows of the open positions, each valued at the close on or
\* before the as-of date and the latest FX rate of the month
RowsAsOf(positions_now, src, fx, d) ==
    { [account |-> pos.account, symbol |-> pos.symbol,
       valuation |->
           Num(convert_to_krw(pos.account,
                   Num(pos.quantity * CloseOnOrBefore(src, pos.ticker, d)[1]),
                   NaN, fx, TRUE).value)] :
        pos \in {x \in positions_now : notna(CloseOnOrBefore(src, x.ticker, d))} }

\* C23: the holdings snapshot of as-of month M values each open position with
\* the most recent price dated on or before M (and FX on or before M); no
\* price dated after M influences a valuation.
C23_SnapshotUsesPricesUpToAsOf ==
    holdings_df.pc = "holdings" =>
        /\ \A d \in DOMAIN holdings_df.fx : d <= HoldAsOf
        /\ holdings_df.table.df
             = {r \in RowsAsOf(holdings_df.positions, holdings_df.src,
                               holdings_df.fx, HoldAsOf) : r.valuation[1] > 0}

\* the FX observations handed to the month are dated on or before its end
FxUpToAsOf ==
    \A d \in DOMAIN holdings_df.fx : d <= HoldAsOf

\* when the source has no close after the as-of date the snapshot is as of M
SnapshotAsOfWhenSourceEndsThere ==
    (/\ holdings_df.pc = "holdings"
     /\ holdings_df.src["SPYM"][MonthLen] = holdings_df.src["SPYM"][MonthLen + 1]
     /\ holdings_df.src["R.KS"][MonthLen] = holdings_df.src["R.KS"][MonthLen + 1]) =>
        holdings_df.table.df
          = {r \in RowsAsOf(holdings_df.positions, holdings_df.src,
                            holdings_df.fx, HoldAsOf) : r.valuation[1] > 0}

\* a position of the first month valued at the close of the second month
LaterCloseInSnapshot ==
    /\ holdings_df.pc = "holdings"
    /\ HoldAsOf = MonthLen
    /\ holdings_df.src["R.KS"][MonthLen] = Num(1)
    /\ holdings_df.src["R.KS"][MonthLen + 1] = Num(2)
    /\ [account |-> "kor1", symbol |-> "RT", valuation |-> Num(2)]
         \in holdings_df.table.df
    /\ \E pos \in holdings_df.positions :
          pos.account = "kor1" /\ pos.symbol = "RT" /\ pos.quantity = 1

\* the quantity compute_positions holds for (account, symbol), 0 without an
\* open position
HeldQuantity(positions_now, acct, symbol) ==
    LET open == {pos \in positions_now : pos.account = acct /\ pos.symbol = symbol}
    IN  IF open = {} THEN 0 ELSE (CHOOSE pos \in open : TRUE).quantity

\* C28: for an (account, instrument) traded under a single registry label,
\* the quantity held by compute_positions (0 without a position) equals the
\* value of build_quantity_series at the as-of date, also after an oversell
\* followed by buys and when a buy and a sell share a date.
C28_PositionsAgreeWithQuantitySeries ==
    holdings_df.pc = "holdings" =>
        \A i \in DOMAIN holdings_df.recs :
            LET acct   == holdings_df.recs[i].account
                symbol == holdings_df.recs[i].symbol
            IN  HeldQuantity(holdings_df.positions, acct, symbol)
                  = holdings_df.qty[<<acct, symbol_map[symbol].ticker>>][HoldAsOf]

\* the sales of the ledger never exceed what is held
RECURSIVE NeverOversold(_, _)
NeverOversold(rows, q) ==
    \/ rows = <<>>
    \/ /\ q + rows[1].qty[1] >= 0
       /\ NeverOversold(Tail(rows), q + rows[1].qty[1])

\* without an oversell the two quantities agree
QuantitiesAgreeWithoutOversell ==
    holdings_df.pc = "holdings" =>
        \A i \in DOMAIN holdings_df.recs :
            LET acct   == holdings_df.recs[i].account
                symbol == holdings_df.recs[i].symbol
                in_group(r) == r.account = acct /\ r.symbol = symbol
            IN  NeverOversold(SortByDate(SelectSeq(holdings_df.recs, in_group)), 0)
                => HeldQuantity(holdings_df.positions, acct, symbol)
                     = holdings_df.qty[<<acct, symbol_map[symbol].ticker>>][HoldAsOf]

\* an oversell followed by a buy: one unit held, quantity series at zero
OversellThenBuyDiverges ==
    /\ holdings_df.pc = "holdings"
    /\ Len(holdings_df.recs) = 2
    /\ holdings_df.recs[1] = TradeRow("kor1", "RT", 1, -1, 1)
    /\ holdings_df.recs[2] = TradeRow("kor1", "RT", 2, 1, 1)
    /\ HeldQuantity(holdings_df.positions, "kor1", "RT") = 1
    /\ holdings_df.qty[<<"kor1", "R.KS">>][HoldAsOf] = 0

\* sums over the positions and the holdings rows of one account
RECURSIVE SumCost(_)
SumCost(positions_now) ==
    IF positions_now = {} THEN R(0)
    ELSE LET pos == CHOOSE x \in positions_now : TRUE
         IN  RAdd(pos.cost, SumCost(positions_now \ {pos}))

AccountCost(acct) ==
    SumCost({pos \in holdings_df.positions : pos.account = acct})
AccountHoldings(acct) ==
    SumRowValuations({r \in holdings_df.table.df : r.account = acct})

\* the ledger has purchases only, every close equals the purchase price and
\* the FX rate never moves: cost and valuation differ by the conversion only
FlatMarket ==
    /\ \A i \in DOMAIN holdings_df.recs : holdings_df.recs[i].qty[1] > 0
    /\ \A t \in DOMAIN holdings_df.src :
          \A d \in DOMAIN holdings_df.src[t] : holdings_df.src[t][d] = Num(1)
    /\ \A d, e \in DOMAIN holdings_df.fx : holdings_df.fx[d] = holdings_df.fx[e]

\* C27: cost basis (compute_positions), account valuation
\* (compute_account_values) and holdings valuation (build_holdings_df) apply
\* the same currency-conversion condition, also for a foreign-quoted
\* instrument in the home account and a home-quoted one in the foreign account.
C27_SameConversionForCostAndValuation ==
    (holdings_df.pc = "holdings" /\ FlatMarket) =>
        \A acct \in {pos.account : pos \in holdings_df.positions} :
            /\ AccountCost(acct) = R(AccountHoldings(acct))
            /\ AccountCost(acct) = R(holdings_df.account_df[acct][HoldAsOf])

\* cost basis and holdings valuation convert by the account alone
CostAndHoldingsConvertAlike ==
    (holdings_df.pc = "holdings" /\ FlatMarket) =>
        \A acct \in {pos.account : pos \in holdings_df.positions} :
            AccountCost(acct) = R(AccountHoldings(acct))

\* the three agree when every account holds the instrument of its currency
SameConversionForNativeInstruments ==
    (/\ holdings_df.pc = "holdings" /\ FlatMarket
     /\ \A pos \in holdings_df.positions :
           pos.account \in USD_ACCOUNTS <=> ~is_krw_ticker(pos.ticker)) =>
        \A acct \in {pos.account : pos \in holdings_df.positions} :
            /\ AccountCost(acct) = R(AccountHoldings(acct))
            /\ AccountCost(acct) = R(holdings_df.account_df[acct][HoldAsOf])

\* a foreign-quoted instrument in the home account: cost 1, account value 2
ForeignInstrumentInHomeAccount ==
    /\ holdings_df.pc = "holdings" /\ FlatMarket
    /\ holdings_df.recs = <<TradeRow("kor1", "SPYM", 1, 1, 1)>>
    /\ AccountCost("kor1") = R(1)
    /\ AccountHoldings("kor1") = 1
    /\ holdings_df.account_df["kor1"][HoldAsOf] = 2

\* the three date notations and the comma of a number are read
NotationsRead ==
    /\ parse_date(<<"1", ".", "1">>) = Num(1)
    /\ parse_date(<<"2", "/", "1">>) = Num(MonthLen + 1)
    /\ _clean_numeric(<<"1", ",", "0">>) = Num(10)
    /\ raw.pc = "summed"
    /\ "kor1" \in DOMAIN raw.dividends
    /\ raw.dividends["kor1"] = 12

---------------------------------------------------------------------------
(* The control surface of main, the independence of its months and its     *)
(* configuration errors, under SpecVal.                                    *)

\* the month of the latest dated row of the loaded ledger
LatestMonth == MonthOf(latest_date(records)[1])

\* the periods the mode asks for: the latest month alone, or every month from
\* the start month through the latest one (the latest month alone when the
\* ledger ends before the start month)
PeriodsAsked ==
    IF run.full /\ LatestMonth >= MonthOf(START_MONTH)
    THEN [i \in 1..(LatestMonth - MonthOf(START_MONTH) + 1) |->
             MonthOf(START_MONTH) + i - 1]
    ELSE <<LatestMonth>>

\* a period with a ledger row dated on or before its end
PeriodHasRows(m) ==
    \E i \in DOMAIN records :
        notna(records[i].date) /\ records[i].date[1] <= m * MonthLen

ControlSurface ==
    /\ run.visited = SelectSeq(PeriodsAsked, PeriodHasRows)
    /\ build_info = Num(LatestMonth)
    /\ notna(latest_outputs)
    /\ \A path \in latest_outputs[1] : path[1] = LatestMonth

\* C24: without --full exactly the month of the latest valid ledger date is
\* processed; with --full every month from the start month through that month
\* is visited in chronological order, a month being skipped only when no
\* ledger row is dated on or before its end; in both modes the 'latest'
\* artifacts and the build metadata refer to the month of the latest date.
C24_ControlSurfaceOfMain ==
    RunOver => ControlSurface

\* the control surface of the runs that end without an exception
ControlSurfaceOfCompletedRuns ==
    (run.pc = "done" /\ run.months # <<>>) => ControlSurface

\* the months are visited in chronological order, whatever ends the run
VisitedInOrder ==
    run.pc \in {"loop", "done", "raised"} =>
        \A i, j \in DOMAIN run.visited : i < j => run.visited[i] < run.visited[j]

\* a full run that ends in the first of its two months, without metadata
BackfillCutShort ==
    /\ run.pc = "raised" /\ run.full
    /\ run.months = <<1, 2>>
    /\ run.visited = <<1>>
    /\ PeriodHasRows(1)
    /\ isna(build_info)

\* a full run that visited both of its months
BackfillCompleted ==
    /\ run.pc = "done" /\ run.full
    /\ run.visited = <<1, 2>>
    /\ build_info = Num(2)
    /\ latest_outputs # Num({})

---------------------------------------------------------------------------
(* Specification SpecBackfill: the month loop of main (update_fa.py        *)
(* 1506-1538) on a ledger that read_trading_records has loaded.            *)

MaxBackfillRows == 2

\* trades of the home account, purchases of the foreign account and the
\* dividend of the first month
BackfillRows ==
    { TradeRow("kor1", "RT", d, q, 1) : d \in LedgerDates, q \in {-1, 1} }
    \cup { TradeRow("usa", "SPYM", d, 1, 1) : d \in LedgerDates }
    \cup DividendRows
BackfillLedgers == UNION {[1..n -> BackfillRows] : n \in 1..MaxBackfillRows}

\* a source whose closes never move and one whose close rises after the
\* first month
BackfillSources ==
    { [t \in {"SPYM", "R.KS"} |-> q] :
        q \in { (MonthLen :> Num(1)) @@ ((MonthLen + 1) :> Num(1)),
                (MonthLen :> Num(1)) @@ ((MonthLen + 1) :> Num(2)) } }
BackfillFx == { (1 :> 1), (1 :> 1) @@ ((MonthLen + 1) :> 2) }

InitBackfill ==
    /\ records \in BackfillLedgers
    /\ price_src \in BackfillSources
    /\ fx_series \in BackfillFx
    /\ month_idx = 0 /\ reports = <<>>
    /\ run = [pc |-> "read", full |-> FALSE, months |-> <<>>, error |-> "",
              visited |-> <<>>, loaded |-> NaN]
    /\ account_values = NaN
    /\ outputs = <<>> /\ fetch_calls = 0
    /\ IdleRun /\ IdleExt
    /\ IdleAlign /\ IdleAgg
    /\ account = "kor1" /\ total_qty = 0 /\ total_cost = R(0) /\ prev_qty = 0
    /\ prev_cost = R(0) /\ row = NaN /\ fx_obs = NaN /\ divisor = NaN
    /\ positions = <<>> /\ pc = "idle"
    /\ permuted = <<>> /\ qty_map = NaN /\ qty_map_perm = NaN /\ phase = "idle"

NextBackfill == StartRun \/ SkipMonth \/ ProcessMonth \/ AbortRun \/ FinishRun
SpecBackfill == InitBackfill /\ [][NextBackfill]_vars

\* the tables and artifacts of month m computed from the loaded ledger and FX
\* series by themselves
AloneReports(m) ==
    generate_month_reports(records_upto(run.loaded[1].records, MonthEnd(m)),
                           LocUpTo(run.loaded[1].fx, MonthEnd(m)[1]),
                           MonthEnd(m),
                           get_monthly_prices(latest_date(run.loaded[1].records)[1],
                                              price_src),
                           price_src)

TablesAsAlone(m, alone) ==
    /\ m \in DOMAIN outputs /\ outputs[m] = alone.written
    /\ alone.error = "" => (m \in DOMAIN reports /\ reports[m] = alone.df)

ConfigError ==
    /\ notna(config)
    /\ (config[1].ledger = "absent" \/ config[1].registry \in {"absent", "duplicate"})

\* C26: a missing or inconsistent registry or path entry (ledger file absent,
\* registry file absent, one label mapped to two tickers) aborts the run
\* before any computation: no quote or FX request is sent and no month report
\* is generated or written before the error is raised.
C26_ConfigErrorBeforeAnyComputation ==
    ConfigError =>
        /\ run.pc = "raised"
        /\ fetch_calls = 0
        /\ run.visited = <<>> /\ reports = <<>> /\ outputs = <<>>

\* no month report is generated or written before a configuration error
ConfigErrorBeforeAnyReport ==
    ConfigError =>
        /\ run.pc = "raised"
        /\ run.visited = <<>> /\ reports = <<>> /\ outputs = <<>>

\* an absent ledger file ends the run before any request
LedgerAbsentBeforeAnyFetch ==
    (notna(config) /\ config[1].ledger = "absent") =>
        run.pc = "raised" /\ fetch_calls = 0

\* the registry error is raised after the FX request was sent
RegistryErrorAfterFxFetch ==
    /\ ConfigError /\ config[1].registry = "duplicate"
    /\ run.error = "ValueError"
    /\ fetch_calls = 1

===========================================================================
